---------------------------- MODULE Spec2Model ----------------------------
(***************************************************************************)
(* blazectl: the concurrent bulk-transfer engine.                          *)
(*                                                                         *)
(*   SpecUpload     cmd/upload.go: dispatcher, upload workers, aggregator  *)
(*   SpecDiscovery  cmd/upload.go + util/fileAnalyzer.go: the two bundle   *)
(*                  producers, the chunk scanner, the closer, the collector*)
(*   SpecPoll       fhir/client.go: PollAsyncStatus                        *)
(*                                                                         *)
(* Each specification drives its own group of variables and leaves the     *)
(* other groups at their idle values.                                      *)
(***************************************************************************)
EXTENDS Integers, Sequences, FiniteSets, TLC

VARIABLES
    \* ---- upload run (cmd/upload.go, uploadCmd.Run) ----
    bundles,        \* uploadBundlesSummary.bundles: the collected bundles
    concurrency,    \* the --concurrency flag
    mainPc,         \* position of uploadCmd.Run
    nextBundle,     \* index of the next queueItem of the range loop
    limiter,        \* number of tokens in the buffered channel limiter
    consumerWg,     \* counter of the sync.WaitGroup consumerWg
    workerPc,       \* position of the goroutine of each bundle
    workerResult,   \* the bundleUploadResult a worker is about to send
    resultChCloses, \* how often close(uploadResultCh) has been executed
    panicked,       \* a send on / close of a closed channel has panicked
    aggPc,          \* position of aggregateUploadResults
    agg,            \* the local variables of aggregateUploadResults
    published,      \* the aggregates main has received from aggregatedUploadResultsCh
    received,       \* history: per bundle, how many results the aggregator took
    exitCode,       \* the exit status of the process once uploadCmd has ended
    uploadCalls,    \* history: the bundles uploadBundle has been called for
    responses,      \* history: per bundle, the status of the response received (0: none)
    \* ---- PollAsyncStatus (fhir/client.go) ----
    pollPc,         \* position of PollAsyncStatus
    wait,           \* the local variable wait, in milliseconds
    signalPending,  \* interruptChan holds a signal
    cancelTaken,    \* history: the select has taken the signal
    polls,          \* history: number of status GETs sent
    deletes,        \* history: number of DELETEs sent
    waited,         \* history: the wait that preceded each GET
    lastResponse,   \* history: the response handled last
    pollResult,     \* the ([]byte, error) pair returned
    bodies,         \* history: response bodies received, drained and closed
    \* ---- bundle discovery (cmd/upload.go, util/fileAnalyzer.go) ----
    singleFiles,    \* f.singleBundleFiles, each with what the file system answers
    multiFiles,     \* f.multiBundleFiles, each with its content
    producerWg,     \* counter of the sync.WaitGroup producerWg
    spPc,           \* position of createUploadBundlesFromSingleBundleFiles
    spIdx,          \* index of its current file
    spMsg,          \* the bundle it is about to send on ubp.res
    mpPc,           \* position of createUploadBundlesFromMultiBundleFiles
    mpIdx,          \* index of its current file
    mpMsg,          \* the bundle it is about to send on ubp.res
    scPc,           \* position of CalculateFileChunks
    scBuf,          \* n of the last Read: buf holds the n bytes after alreadyReadBytes
    scIdx,          \* idx of the loop over buf
    lastSeenDelimiterTokenOffsetBytes,
    alreadyReadBytes,
    chunkNumber,
    scMsg,          \* the FileChunkCalculationResult it is about to send on res
    readErrors,     \* history: number of failed reads
    calcResCloses,  \* how often close(res) has been executed for the current file
    bundleChCloses, \* how often close(bundleCh) has been executed
    closerPc,       \* position of the goroutine that closes ubp.res
    collectorPc,    \* position of the range loop of createUploadBundles
    collected,      \* the slice bundles of createUploadBundles
    discPanicked,   \* a send on / close of a closed channel has panicked
    calcResSent,    \* per multi-bundle file, the results its scanner has sent on res
    \* ---- evaluateMeasureWithRetry (cmd/evaluateMeasure.go) ----
    retryPc,        \* position of evaluateMeasureWithRetry
    retryWait,      \* its loop variable wait, in ms
    lastErr,        \* its variable lastErr
    lastReport,     \* measureReport of the last attempt
    attempts,       \* history: number of calls of evaluateMeasure
    slept,          \* history: the waits slept
    retryResult,    \* the ([]byte, error) pair returned
    lastPath,       \* history: the branch of evaluateMeasure the last attempt took
    \* ---- page streamer (fhir ExpandPages, cmd/download.go) ----
    streamer,       \* which producer runs: downloadResources or downloadHistory
    pagePc,         \* position of the producer goroutine
    request,        \* the URL of the request of this iteration
    requests,       \* history: the URLs requested
    lastPage,       \* history: the response handled last
    chain,          \* history: the pages served so far link up to a chain
    emitted,        \* the results sent on resChannel
    pageChCloses,   \* how often close(resChannel) has been executed
    consumerPc,     \* position of the loop ranging over the channel
    \* ---- one call of a function without shared state ----
    callee,         \* the name of the function called
    callArgs,       \* its arguments
    callResult,     \* what it returns
    callPc          \* "call" before the call, "returned" after it

uploadVars == <<bundles, concurrency, mainPc, nextBundle, limiter, consumerWg,
                workerPc, workerResult, resultChCloses, panicked, aggPc, agg,
                published, received, exitCode,
                uploadCalls, responses>>

pollVars == <<pollPc, wait, signalPending, cancelTaken, polls, deletes, waited,
              lastResponse, pollResult, bodies>>

discVars == <<singleFiles, multiFiles, producerWg, spPc, spIdx, spMsg, mpPc,
              mpIdx, mpMsg, scPc, scBuf, scIdx,
              lastSeenDelimiterTokenOffsetBytes, alreadyReadBytes, chunkNumber,
              scMsg, readErrors, calcResCloses, bundleChCloses, closerPc,
              collectorPc, collected, discPanicked, calcResSent>>

retryVars == <<retryPc, retryWait, lastErr, lastReport, attempts, slept,
               retryResult, lastPath>>

pageVars == <<streamer, pagePc, request, requests, lastPage, chain, emitted,
              pageChCloses, consumerPc>>

callVars == <<callee, callArgs, callResult, callPc>>

vars == <<uploadVars, pollVars, discVars, retryVars, pageVars, callVars>>

\* Variables that the upload specification leaves alone.
otherThanUpload == <<pollVars, discVars, retryVars, pageVars, callVars>>

\* Variables that the poll specification leaves alone.
otherThanPoll == <<uploadVars, discVars, retryVars, pageVars, callVars>>

\* Variables that the discovery specification leaves alone.
otherThanDiscovery == <<uploadVars, pollVars, retryVars, pageVars, callVars>>

\* Variables that the retry specification leaves alone.
otherThanRetry == <<uploadVars, pollVars, discVars, pageVars, callVars>>

\* Variables that a call of a function without shared state leaves alone.
otherThanCalls == <<uploadVars, pollVars, discVars, retryVars, pageVars>>

\* Variables that the page specification leaves alone.
otherThanPages == <<uploadVars, pollVars, discVars, retryVars, callVars>>

-----------------------------------------------------------------------------
(* Bounds *)

MaxBundles == 3
MaxConcurrency == 2
MaxPolls == 9
MaxFileLen == 3
MaxReadErrors == 2
MaxIssues == 2
MaxPages == 3
MaxEntries == 2
MaxTypes == 3
MaxDuration == 3
MaxByteCount == 2048
\* The longest content of a file that exists before the download command runs.
MaxContentLen == 2

\* The wire timings (server processing time) and response body sizes a
\* request can show.
ProcessingDurations == {1, 2}
ResponseBodySizes == {3}

-----------------------------------------------------------------------------
(* Data: cmd/upload.go *)

Nil == "nil"

\* bundleIdentifier{filename, bundleNumber, startBytes, endBytes}
bundleIdentifier(f, n, s, e) ==
    [filename |-> f, bundleNumber |-> n, startBytes |-> s, endBytes |-> e]

\* bundle{id: bundleIdentifier{filename: file}, err: err}: os.Open failed
OpenErrBundle(f) == [id |-> bundleIdentifier(f, 0, 0, 0), err |-> "open"]

\* bundle{id: {filename, bundleNumber: 1}, err: err}: f.Stat failed
StatErrBundle(f) == [id |-> bundleIdentifier(f, 1, 0, 0), err |-> "stat"]

\* bundle of a single-bundle file: [0, fInfo.Size())
SingleBundle(f, size) == [id |-> bundleIdentifier(f, 1, 0, size), err |-> Nil]

\* bundle{id: {filename, bundleNumber: res.FileChunk.ChunkNumber}, err: res.Err}
ReadErrBundle(f, n) == [id |-> bundleIdentifier(f, n, 0, 0), err |-> "read"]

\* bundle of one chunk of a multi-bundle file
ChunkBundle(f, n, s, e) == [id |-> bundleIdentifier(f, n, s, e), err |-> Nil]

\* uploadInfo{} : the zero value
NoUploadInfo ==
    [statusCode |-> 0, error |-> Nil, bytesOut |-> 0, bytesIn |-> 0,
     requestDuration |-> 0, processingDuration |-> 0]

\* bundleUploadResult{} : the zero value
NoResult == [id |-> bundleIdentifier("", 0, 0, 0), uploadInfo |-> NoUploadInfo, err |-> Nil]

\* m[k] = v of a Go map, the map being a function over its keys
MapPut(m, k, v) == [x \in (DOMAIN m) \cup {k} |-> IF x = k THEN v ELSE m[x]]

EmptyMap == [x \in {} |-> Nil]

\* The local variables of aggregateUploadResults before its range loop.
NewAggregate ==
    [totalProcessedBundles |-> 0,
     requestDurations      |-> <<>>,
     processingDurations   |-> <<>>,
     totalBytesIn          |-> 0,
     totalBytesOut         |-> 0,
     errorResponses        |-> EmptyMap,
     errors                |-> EmptyMap]

\* AggregateOne that counts only the results without error.
AggregateOneSkipsErrors(a, r) ==
    IF r.err # Nil
    THEN [a EXCEPT !.errors = MapPut(@, r.id, r.err)]
    ELSE LET byStatus ==
                 IF r.uploadInfo.statusCode = 200
                 THEN [a EXCEPT !.processingDurations =
                           Append(@, r.uploadInfo.processingDuration)]
                 ELSE [a EXCEPT !.errorResponses =
                           MapPut(@, r.id, [statusCode |-> r.uploadInfo.statusCode,
                                            error      |-> r.uploadInfo.error])]
         IN [byStatus EXCEPT
                !.totalProcessedBundles = @ + 1,
                !.totalBytesIn = @ + r.uploadInfo.bytesIn,
                !.totalBytesOut = @ + r.uploadInfo.bytesOut,
                !.requestDurations = Append(@, r.uploadInfo.requestDuration)]

\* AggregateOne that assigns the bytes sent of the result instead of adding
\* them.
AggregateOneAssignsBytesOut(a, r) ==
    LET counted == [a EXCEPT !.totalProcessedBundles = @ + 1] IN
    IF r.err # Nil
    THEN [counted EXCEPT !.errors = MapPut(@, r.id, r.err)]
    ELSE LET byStatus ==
                 IF r.uploadInfo.statusCode = 200
                 THEN [counted EXCEPT !.processingDurations =
                           Append(@, r.uploadInfo.processingDuration)]
                 ELSE [counted EXCEPT !.errorResponses =
                           MapPut(@, r.id, [statusCode |-> r.uploadInfo.statusCode,
                                            error      |-> r.uploadInfo.error])]
         IN [byStatus EXCEPT
                !.totalBytesIn = @ + r.uploadInfo.bytesIn,
                !.totalBytesOut = r.uploadInfo.bytesOut,
                !.requestDurations = Append(@, r.uploadInfo.requestDuration)]

\* The body of the range loop of aggregateUploadResults for one result.
AggregateOne(a, r) ==
    LET counted == [a EXCEPT !.totalProcessedBundles = @ + 1] IN
    IF r.err # Nil
    THEN [counted EXCEPT !.errors = MapPut(@, r.id, r.err)]
    ELSE LET byStatus ==
                 IF r.uploadInfo.statusCode = 200
                 THEN [counted EXCEPT !.processingDurations =
                           Append(@, r.uploadInfo.processingDuration)]
                 ELSE [counted EXCEPT !.errorResponses =
                           MapPut(@, r.id, [statusCode |-> r.uploadInfo.statusCode,
                                            error      |-> r.uploadInfo.error])]
         IN [byStatus EXCEPT
                !.totalBytesIn = @ + r.uploadInfo.bytesIn,
                !.totalBytesOut = @ + r.uploadInfo.bytesOut,
                !.requestDurations = Append(@, r.uploadInfo.requestDuration)]

\* The results uploadBundle can return for bundle b.
UploadOutcomes(b) ==
    LET bundleSize == b.id.endBytes - b.id.startBytes IN
    \* os.Open, Seek, NewTransactionRequest, client.Do or the body read failed
    { [id |-> b.id, uploadInfo |-> NoUploadInfo, err |-> "transport"] }
    \cup
    \* status # 200 whose body is no OperationOutcome
    { [id |-> b.id, uploadInfo |-> NoUploadInfo, err |-> "unmarshal"] }
    \cup
    { [id |-> b.id, err |-> Nil,
       uploadInfo |-> [statusCode |-> sc,
                       error |-> IF sc = 200 THEN Nil ELSE "OperationOutcome",
                       bytesOut |-> bundleSize, bytesIn |-> bin,
                       \* the request lasts longer than the server's processing
                       requestDuration |-> pd + 1, processingDuration |-> pd]] :
        sc \in {200, 503}, bin \in ResponseBodySizes, pd \in ProcessingDurations }

\* The status of the response behind result r of uploadBundle: none (0) for
\* a transport error, which is taken to strike before a response arrives; a
\* status other than 200 when the body is no OperationOutcome (only that path
\* unmarshals); the recorded status otherwise.
ResponseStatuses(r) ==
    IF r.err = "transport" THEN {0}
    ELSE IF r.err = "unmarshal" THEN {503}
    ELSE {r.uploadInfo.statusCode}

-----------------------------------------------------------------------------
(* The upload run: uploadCmd.Run from the start of the aggregator goroutine *)
(* to the receipt of the aggregate.                                        *)

\* The shapes of bundle the producers build, over a small directory.
BundleUniverse ==
    { SingleBundle("a.json", 2),
      ChunkBundle("b.ndjson", 1, 0, 1), ReadErrBundle("b.ndjson", 1) }

\* The bundle lists discovery can hand over: a producer emits one bundle per
\* single-bundle file and one per non-empty chunk, the bundles of one file in
\* file order; only the result of a failed read can be emitted again with the
\* same identifier, because the scanner goes on reading after it.
UploadInputs ==
    { s \in UNION { [1..n -> BundleUniverse] : n \in 0..MaxBundles } :
        \A i, j \in DOMAIN s :
            /\ (i # j /\ s[i].id = s[j].id) => s[i].err = "read"
            /\ (i < j /\ s[i].id.filename = s[j].id.filename)
                   => s[i].id.bundleNumber <= s[j].id.bundleNumber
            /\ (i < j /\ s[i].err = "read") => s[j] # ChunkBundle("b.ndjson", 1, 0, 1) }

\* The poll variables while PollAsyncStatus does not run.
PollIdle ==
    /\ pollPc = "idle"
    /\ wait = 0
    /\ signalPending = FALSE
    /\ cancelTaken = FALSE
    /\ polls = 0
    /\ deletes = 0
    /\ waited = <<>>
    /\ lastResponse = Nil
    /\ pollResult = Nil
    /\ bodies = Nil

\* The page variables while no page streamer runs.
PagesIdle ==
    /\ streamer = Nil
    /\ pagePc = "idle"
    /\ request = 0
    /\ requests = <<>>
    /\ lastPage = Nil
    /\ chain = TRUE
    /\ emitted = <<>>
    /\ pageChCloses = 0
    /\ consumerPc = "idle"

\* The call variables while no such function is called.
CallsIdle ==
    /\ callee = Nil
    /\ callArgs = Nil
    /\ callResult = Nil
    /\ callPc = "idle"

\* The retry variables while evaluateMeasureWithRetry does not run.
RetryIdle ==
    /\ retryPc = "idle"
    /\ retryWait = 0
    /\ lastErr = <<>>
    /\ lastReport = Nil
    /\ attempts = 0
    /\ slept = <<>>
    /\ retryResult = Nil
    /\ lastPath = Nil

\* The discovery variables while no discovery runs.
DiscoveryIdle ==
    /\ singleFiles = <<>>
    /\ multiFiles = <<>>
    /\ producerWg = 0
    /\ spPc = "idle"
    /\ spIdx = 0
    /\ spMsg = Nil
    /\ mpPc = "idle"
    /\ mpIdx = 0
    /\ mpMsg = Nil
    /\ scPc = "idle"
    /\ scBuf = 0
    /\ scIdx = 0
    /\ lastSeenDelimiterTokenOffsetBytes = 0
    /\ alreadyReadBytes = 0
    /\ chunkNumber = 0
    /\ scMsg = Nil
    /\ readErrors = 0
    /\ calcResCloses = 0
    /\ bundleChCloses = 0
    /\ closerPc = "idle"
    /\ collectorPc = "idle"
    /\ collected = <<>>
    /\ discPanicked = FALSE
    /\ calcResSent = <<>>

\* The upload variables while no upload runs.
UploadIdle ==
    /\ bundles = <<>>
    /\ concurrency = 0
    /\ mainPc = "idle"
    /\ nextBundle = 0
    /\ limiter = 0
    /\ consumerWg = 0
    /\ workerPc = <<>>
    /\ workerResult = <<>>
    /\ resultChCloses = 0
    /\ panicked = FALSE
    /\ aggPc = "idle"
    /\ agg = NewAggregate
    /\ published = <<>>
    /\ received = <<>>
    /\ exitCode = Nil
    /\ uploadCalls = {}
    /\ responses = <<>>

Workers == DOMAIN bundles

InitUpload ==
    /\ bundles \in UploadInputs
    /\ concurrency \in 1..MaxConcurrency
    /\ mainPc = "range"
    /\ nextBundle = 1
    /\ limiter = 0
    /\ consumerWg = 0
    /\ workerPc = [i \in DOMAIN bundles |-> "idle"]
    /\ workerResult = [i \in DOMAIN bundles |-> NoResult]
    /\ resultChCloses = 0
    /\ panicked = FALSE
    /\ aggPc = "range"
    /\ agg = NewAggregate
    /\ published = <<>>
    /\ received = [i \in DOMAIN bundles |-> 0]
    /\ exitCode = Nil
    /\ uploadCalls = {}
    /\ responses = [i \in DOMAIN bundles |-> 0]
    /\ PollIdle
    /\ DiscoveryIdle
    /\ RetryIdle
    /\ PagesIdle
    /\ CallsIdle

\* AcquireSlot with an unbounded limiter channel.
AcquireSlotUnbounded ==
    /\ mainPc = "range"
    /\ nextBundle <= Len(bundles)
    /\ limiter' = limiter + 1
    /\ mainPc' = "spawn"
    /\ UNCHANGED <<bundles, concurrency, nextBundle, consumerWg, workerPc,
                   workerResult, resultChCloses, panicked, aggPc, agg,
                   published, received>>
    /\ UNCHANGED exitCode
    /\ UNCHANGED uploadCalls
    /\ UNCHANGED responses
    /\ UNCHANGED otherThanUpload

\* uploadBundles: limiter <- true blocks while the channel holds concurrency tokens.
AcquireSlot ==
    /\ mainPc = "range"
    /\ nextBundle <= Len(bundles)
    /\ limiter < concurrency
    /\ limiter' = limiter + 1
    /\ mainPc' = "spawn"
    /\ UNCHANGED <<bundles, concurrency, nextBundle, consumerWg, workerPc,
                   workerResult, resultChCloses, panicked, aggPc, agg,
                   published, received>>
    /\ UNCHANGED exitCode
    /\ UNCHANGED uploadCalls
    /\ UNCHANGED responses
    /\ UNCHANGED otherThanUpload

\* uploadBundles: wg.Add(1); go func(b, limiter, wg)
SpawnWorker ==
    /\ mainPc = "spawn"
    /\ consumerWg' = consumerWg + 1
    /\ workerPc' = [workerPc EXCEPT ![nextBundle] = "start"]
    /\ nextBundle' = nextBundle + 1
    /\ mainPc' = "range"
    /\ UNCHANGED <<bundles, concurrency, limiter, workerResult, resultChCloses,
                   panicked, aggPc, agg, published, received>>
    /\ UNCHANGED exitCode
    /\ UNCHANGED uploadCalls
    /\ UNCHANGED responses
    /\ UNCHANGED otherThanUpload

\* uploadBundles returns once the range loop is over.
DispatchDone ==
    /\ mainPc = "range"
    /\ nextBundle > Len(bundles)
    /\ mainPc' = "wait"
    /\ UNCHANGED <<bundles, concurrency, nextBundle, limiter, consumerWg,
                   workerPc, workerResult, resultChCloses, panicked, aggPc,
                   agg, published, received>>
    /\ UNCHANGED exitCode
    /\ UNCHANGED uploadCalls
    /\ UNCHANGED responses
    /\ UNCHANGED otherThanUpload

\* WorkerStart that ends the goroutine of a bundle with a discovery error
\* without sending its result.
WorkerStartDropsError(i) ==
    /\ workerPc[i] = "start"
    /\ workerPc' = [workerPc EXCEPT ![i] =
           IF bundles[i].err # Nil THEN "sent" ELSE "upload"]
    /\ UNCHANGED <<bundles, concurrency, mainPc, nextBundle, limiter,
                   consumerWg, workerResult, resultChCloses, panicked, aggPc,
                   agg, published, received>>
    /\ UNCHANGED exitCode
    /\ UNCHANGED uploadCalls
    /\ UNCHANGED responses
    /\ UNCHANGED otherThanUpload

\* WorkerStart that calls uploadBundle whatever the bundle carries.
WorkerStartUploadsAnyway(i) ==
    /\ workerPc[i] = "start"
    /\ workerPc' = [workerPc EXCEPT ![i] = "upload"]
    /\ UNCHANGED <<bundles, concurrency, mainPc, nextBundle, limiter,
                   consumerWg, workerResult, resultChCloses, panicked, aggPc,
                   agg, published, received>>
    /\ UNCHANGED exitCode
    /\ UNCHANGED uploadCalls
    /\ UNCHANGED responses
    /\ UNCHANGED otherThanUpload

\* The worker goroutine: if b.err != nil the result is the discovery error,
\* and the file is not opened; else the upload starts.
WorkerStart(i) ==
    /\ workerPc[i] = "start"
    /\ IF bundles[i].err # Nil
       THEN /\ workerResult' = [workerResult EXCEPT ![i] =
                   [id |-> bundles[i].id, uploadInfo |-> NoUploadInfo,
                    err |-> bundles[i].err]]
            /\ workerPc' = [workerPc EXCEPT ![i] = "send"]
       ELSE /\ workerPc' = [workerPc EXCEPT ![i] = "upload"]
            /\ UNCHANGED workerResult
    /\ UNCHANGED <<bundles, concurrency, mainPc, nextBundle, limiter,
                   consumerWg, resultChCloses, panicked, aggPc, agg,
                   published, received>>
    /\ UNCHANGED exitCode
    /\ UNCHANGED uploadCalls
    /\ UNCHANGED responses
    /\ UNCHANGED otherThanUpload

\* uploadBundle(consumer.client, &b) returns.
WorkerUpload(i) ==
    /\ workerPc[i] = "upload"
    /\ \E r \in UploadOutcomes(bundles[i]) :
           \E sc \in ResponseStatuses(r) :
               /\ workerResult' = [workerResult EXCEPT ![i] = r]
               /\ responses' = [responses EXCEPT ![i] = sc]
    /\ workerPc' = [workerPc EXCEPT ![i] = "send"]
    /\ UNCHANGED <<bundles, concurrency, mainPc, nextBundle, limiter,
                   consumerWg, resultChCloses, panicked, aggPc, agg,
                   published, received>>
    /\ UNCHANGED exitCode
    /\ uploadCalls' = uploadCalls \cup {i}
    /\ UNCHANGED otherThanUpload

\* consumer.uploadResults <- result. The channel is unbuffered: the send
\* completes together with the receive of the aggregator's range loop, whose
\* body runs on the result. A send on a closed channel panics.
WorkerSend(i) ==
    /\ workerPc[i] = "send"
    /\ IF resultChCloses > 0
       THEN /\ panicked' = TRUE
            /\ workerPc' = [workerPc EXCEPT ![i] = "panic"]
            /\ UNCHANGED <<agg, received>>
       ELSE /\ aggPc = "range"
            /\ agg' = AggregateOne(agg, workerResult[i])
            /\ received' = [received EXCEPT ![i] = @ + 1]
            /\ workerPc' = [workerPc EXCEPT ![i] = "sent"]
            /\ UNCHANGED panicked
    /\ UNCHANGED <<bundles, concurrency, mainPc, nextBundle, limiter,
                   consumerWg, workerResult, resultChCloses, aggPc,
                   published>>
    /\ UNCHANGED exitCode
    /\ UNCHANGED uploadCalls
    /\ UNCHANGED responses
    /\ UNCHANGED otherThanUpload

\* consumer.progressBar.Increment(...); wg.Done()
WorkerDone(i) ==
    /\ workerPc[i] = "sent"
    /\ consumerWg' = consumerWg - 1
    /\ workerPc' = [workerPc EXCEPT ![i] = "release"]
    /\ UNCHANGED <<bundles, concurrency, mainPc, nextBundle, limiter,
                   workerResult, resultChCloses, panicked, aggPc, agg,
                   published, received>>
    /\ UNCHANGED exitCode
    /\ UNCHANGED uploadCalls
    /\ UNCHANGED responses
    /\ UNCHANGED otherThanUpload

\* WorkerRelease of a worker that ends without taking its token back out of
\* the limiter.
WorkerReleaseKeepsSlot(i) ==
    /\ workerPc[i] = "release"
    /\ workerPc' = [workerPc EXCEPT ![i] = "exit"]
    /\ UNCHANGED <<bundles, concurrency, mainPc, nextBundle, limiter,
                   consumerWg, workerResult, resultChCloses, panicked, aggPc,
                   agg, published, received>>
    /\ UNCHANGED exitCode
    /\ UNCHANGED uploadCalls
    /\ UNCHANGED responses
    /\ UNCHANGED otherThanUpload

\* defer func() { <-limiter }()
WorkerRelease(i) ==
    /\ workerPc[i] = "release"
    /\ limiter' = limiter - 1
    /\ workerPc' = [workerPc EXCEPT ![i] = "exit"]
    /\ UNCHANGED <<bundles, concurrency, mainPc, nextBundle, consumerWg,
                   workerResult, resultChCloses, panicked, aggPc, agg,
                   published, received>>
    /\ UNCHANGED exitCode
    /\ UNCHANGED uploadCalls
    /\ UNCHANGED responses
    /\ UNCHANGED otherThanUpload

\* WaitWorkers that does not wait for the counter to reach zero.
WaitWorkersNoWait ==
    /\ mainPc = "wait"
    /\ mainPc' = "close"
    /\ UNCHANGED <<bundles, concurrency, nextBundle, limiter, consumerWg,
                   workerPc, workerResult, resultChCloses, panicked, aggPc,
                   agg, published, received>>
    /\ UNCHANGED exitCode
    /\ UNCHANGED uploadCalls
    /\ UNCHANGED responses
    /\ UNCHANGED otherThanUpload

\* consumerWg.Wait() returns when the counter is zero.
WaitWorkers ==
    /\ mainPc = "wait"
    /\ consumerWg = 0
    /\ mainPc' = "close"
    /\ UNCHANGED <<bundles, concurrency, nextBundle, limiter, consumerWg,
                   workerPc, workerResult, resultChCloses, panicked, aggPc,
                   agg, published, received>>
    /\ UNCHANGED exitCode
    /\ UNCHANGED uploadCalls
    /\ UNCHANGED responses
    /\ UNCHANGED otherThanUpload

\* The number of workers that have completed their send.
SentCount ==
    Cardinality({i \in Workers : workerPc[i] \in {"sent", "release", "exit"}})

\* close(uploadResultCh); progress.Wait(); client.CloseIdleConnections()
CloseResultCh ==
    /\ mainPc = "close"
    /\ resultChCloses' = resultChCloses + 1
    /\ panicked' = (panicked \/ resultChCloses > 0)
    /\ mainPc' = "receive"
    /\ UNCHANGED <<bundles, concurrency, nextBundle, limiter, consumerWg,
                   workerPc, workerResult, aggPc, agg, published, received>>
    /\ UNCHANGED exitCode
    /\ UNCHANGED uploadCalls
    /\ UNCHANGED responses
    /\ UNCHANGED otherThanUpload

\* aggregateUploadResults: the range loop ends when the channel is closed.
AggRangeEnd ==
    /\ aggPc = "range"
    /\ resultChCloses > 0
    /\ aggPc' = "publish"
    /\ UNCHANGED <<bundles, concurrency, mainPc, nextBundle, limiter,
                   consumerWg, workerPc, workerResult, resultChCloses,
                   panicked, agg, published, received>>
    /\ UNCHANGED exitCode
    /\ UNCHANGED uploadCalls
    /\ UNCHANGED responses
    /\ UNCHANGED otherThanUpload

\* aggregatedUploadResultsCh <- aggregatedUploadResults{...} meets
\* aggResults := <-aggregatedUploadResultsCh of uploadCmd.Run.
PublishAggregate ==
    /\ aggPc = "publish"
    /\ mainPc = "receive"
    /\ published' = Append(published, agg)
    /\ aggPc' = "exit"
    /\ mainPc' = "summary"
    /\ UNCHANGED <<bundles, concurrency, nextBundle, limiter, consumerWg,
                   workerPc, workerResult, resultChCloses, panicked, agg,
                   received>>
    /\ UNCHANGED exitCode
    /\ UNCHANGED uploadCalls
    /\ UNCHANGED responses
    /\ UNCHANGED otherThanUpload

\* genStats(durations) indexes durations[len(durations)/2]: it panics with
\* an index out of range on an empty slice.
genStatsPanics(durations) == Len(durations) = 0

\* The summary with genStats called without the guards on the lengths.
SummaryPanicsUnguarded(aggResults) ==
    \/ genStatsPanics(aggResults.requestDurations)
    \/ genStatsPanics(aggResults.processingDurations)

\* The summary of uploadCmd.Run panics when one of its calls of genStats does;
\* each call is guarded by len(...) > 0. The success ratio and the mean
\* bytes are float32 divisions, which give NaN and no panic for zero bundles.
SummaryPanics(aggResults) ==
    \/ /\ Len(aggResults.requestDurations) > 0
       /\ genStatsPanics(aggResults.requestDurations)
    \/ /\ Len(aggResults.processingDurations) > 0
       /\ genStatsPanics(aggResults.processingDurations)

\* uploadCmd.Run after aggResults := <-aggregatedUploadResultsCh: it prints
\* the summary, the non-OK responses and the errors, and returns; no call of
\* os.Exit follows, so main returns and the exit status is 0 (2 after a
\* panic).
RunReturn ==
    /\ mainPc = "summary"
    /\ mainPc' = "exited"
    /\ panicked' = (panicked \/ SummaryPanics(published[1]))
    /\ exitCode' = IF panicked' THEN 2 ELSE 0
    /\ UNCHANGED uploadCalls
    /\ UNCHANGED responses
    /\ UNCHANGED <<bundles, concurrency, nextBundle, limiter, consumerWg,
                   workerPc, workerResult, resultChCloses, aggPc,
                   agg, published, received>>
    /\ UNCHANGED otherThanUpload

NextUpload ==
    \/ AcquireSlot
    \/ SpawnWorker
    \/ DispatchDone
    \/ \E i \in Workers : WorkerStart(i)
    \/ \E i \in Workers : WorkerUpload(i)
    \/ \E i \in Workers : WorkerSend(i)
    \/ \E i \in Workers : WorkerDone(i)
    \/ \E i \in Workers : WorkerRelease(i)
    \/ WaitWorkers
    \/ CloseResultCh
    \/ AggRangeEnd
    \/ PublishAggregate
    \/ RunReturn

SpecUpload == InitUpload /\ [][NextUpload]_vars

\* The Go scheduler runs every goroutine that can take a step, and every
\* request ends by the transport's timeouts.
FairSpecUpload == SpecUpload /\ WF_vars(NextUpload)


-----------------------------------------------------------------------------
(* PollAsyncStatus: fhir/client.go *)

HundredMilliseconds == 100
TenSeconds == 10000

\* A status string as the sequence of its characters.
Status200OK == <<"2", "0", "0", " ", "O", "K">>
Status200 == <<"2", "0", "0">>
Status20 == <<"2", "0">>
Status400 == <<"4", "0", "0", " ", "B", "a", "d">>
StatusEmpty == <<>>
EntryStatuses == {Status200OK, Status200, Status20, Status400, StatusEmpty}

\* strings.HasPrefix(s, prefix)
HasPrefix(s, prefix) ==
    /\ Len(s) >= Len(prefix)
    /\ SubSeq(s, 1, Len(prefix)) = prefix

\* fm.BundleEntry: Response is nil or BundleEntryResponse{Status, Outcome};
\* Outcome is nil, bytes that are no OperationOutcome, or an OperationOutcome.
NoEntryResponse == [present |-> FALSE, status |-> StatusEmpty, outcome |-> Nil]
EntryResponses ==
    {NoEntryResponse} \cup
    [present : {TRUE}, status : EntryStatuses,
     outcome : {Nil, "invalid", "OperationOutcome"}]
BundleEntries == [response : EntryResponses, resource : {"MeasureReport"}]

\* fm.Bundle as far as handlePollOkResponse reads it.
NoBundle == [type |-> "", entry |-> <<>>]
PollBundles ==
    [type : {"batch-response", "batch"},
     entry : {<<>>} \cup {<<e>> : e \in BundleEntries}
             \cup {<<e, e>> : e \in BundleEntries}]

\* What client.Do and the reading of the body can yield: a transport failure,
\* or a response with its status, its Content-Type (FHIR JSON or not), whether
\* its body can be read and decoded, whether the reads of its body succeed up
\* to EOF, and the decoded bundle of a 200.
NoResponse ==
    [transportOk |-> FALSE, status |-> 0, fhir |-> FALSE, bodyOk |-> FALSE,
     readOk |-> FALSE, bundle |-> NoBundle]
TransportFailure == NoResponse

\* A body that is read and decoded is read without failure; one that is not
\* fails to be read or holds something else than expected. The body of a 202
\* is not decoded, its bodyOk is the success of DiscardAndClose.
ReadOutcomes(status, bodyOk) ==
    IF bodyOk THEN {TRUE} ELSE IF status = 202 THEN {FALSE} ELSE BOOLEAN

\* The responses built from the shapes, each with its read outcomes.
WithReadOutcomes(shapes) ==
    UNION {{[transportOk |-> TRUE, status |-> r.status, fhir |-> r.fhir,
             bodyOk |-> r.bodyOk, readOk |-> ro, bundle |-> r.bundle]
             : ro \in ReadOutcomes(r.status, r.bodyOk)} : r \in shapes}

GetResponses ==
    {TransportFailure}
    \cup WithReadOutcomes(
             [status : {202}, fhir : {FALSE}, bodyOk : BOOLEAN, bundle : {NoBundle}]
        \cup [status : {404}, fhir : BOOLEAN, bodyOk : BOOLEAN, bundle : {NoBundle}]
        \cup [status : {200}, fhir : BOOLEAN, bodyOk : {FALSE}, bundle : {NoBundle}]
        \cup [status : {200}, fhir : BOOLEAN, bodyOk : {TRUE}, bundle : PollBundles])
DeleteResponses ==
    {TransportFailure}
    \cup WithReadOutcomes(
             [status : {202, 200, 404}, fhir : BOOLEAN, bodyOk : BOOLEAN,
              bundle : {NoBundle}])

\* What has become of a response body: read up to EOF, Close called.
Body(drained, closed) == [drained |-> drained, closed |-> closed]

\* DiscardAndClose(r): io.Copy(io.Discard, r), and r.Close() only if the copy
\* did not fail.
DiscardAndClose(resp) == Body(resp.readOk, resp.readOk)

\* The deferred function of handleErrorResponse: io.Copy(io.Discard,
\* resp.Body), its error dropped, then resp.Body.Close().
handleErrorResponseBody(resp) == Body(resp.readOk, TRUE)

\* The body of a GET response when PollAsyncStatus is done with it: the
\* deferred DiscardAndClose of handlePollOkResponse for a 200, DiscardAndClose
\* for a 202, handleErrorResponse otherwise.
BodyAfterGet(resp) ==
    IF resp.status \in {200, 202} THEN DiscardAndClose(resp)
    ELSE handleErrorResponseBody(resp)

\* The body of the DELETE response after handlePollCancelResponse: its
\* deferred DiscardAndClose, which for a status other than 202 runs on the
\* body that handleErrorResponse has closed and fails in its copy.
BodyAfterDelete(resp) ==
    IF resp.status = 202 THEN DiscardAndClose(resp)
    ELSE handleErrorResponseBody(resp)

\* The history of bodies after one more response has been handled.
CountBody(b, resp, body) ==
    IF ~resp.transportOk THEN b
    ELSE [received |-> b.received + 1,
          drained |-> b.drained + (IF body.drained THEN 1 ELSE 0),
          closed |-> b.closed + (IF body.closed THEN 1 ELSE 0)]

\* The pair ([]byte, error) a function returns.
Returns(payload, err) == [payload |-> payload, err |-> err]
NoReturn == Returns(Nil, Nil)

\* handleErrorResponse(resp)
handleErrorResponse(resp) ==
    IF resp.fhir
    THEN IF resp.bodyOk THEN "operationOutcomeError" ELSE "decode"
    ELSE "non FHIR response"

\* handlePollOkResponse that takes the first entry of any non-empty bundle.
handlePollOkResponseAnyEntryCount(resp) ==
    IF ~resp.fhir THEN Returns(Nil, "non FHIR response")
    ELSE IF ~resp.bodyOk THEN Returns(Nil, "error while reading the async response bundle")
    ELSE IF resp.bundle.type # "batch-response"
         THEN Returns(Nil, "expected batch-response bundle")
    ELSE IF Len(resp.bundle.entry) < 1 THEN Returns(Nil, "expected one entry")
    ELSE LET entry == resp.bundle.entry[1] IN
         IF ~entry.response.present THEN Returns(Nil, "missing response in bundle entry")
         ELSE IF ~HasPrefix(entry.response.status, Status200)
              THEN IF entry.response.outcome = Nil THEN Returns(Nil, "error status")
                   ELSE IF entry.response.outcome = "invalid"
                        THEN Returns(Nil, "error while reading the outcome")
                        ELSE Returns(Nil, "operationOutcomeError")
              ELSE Returns(entry.resource, Nil)

\* handlePollOkResponse(resp)
handlePollOkResponse(resp) ==
    IF ~resp.fhir THEN Returns(Nil, "non FHIR response")
    ELSE IF ~resp.bodyOk THEN Returns(Nil, "error while reading the async response bundle")
    ELSE IF resp.bundle.type # "batch-response"
         THEN Returns(Nil, "expected batch-response bundle")
    ELSE IF Len(resp.bundle.entry) # 1 THEN Returns(Nil, "expected one entry")
    ELSE LET entry == resp.bundle.entry[1] IN
         IF ~entry.response.present THEN Returns(Nil, "missing response in bundle entry")
         ELSE IF ~HasPrefix(entry.response.status, Status200)
              THEN IF entry.response.outcome = Nil THEN Returns(Nil, "error status")
                   ELSE IF entry.response.outcome = "invalid"
                        THEN Returns(Nil, "error while reading the outcome")
                        ELSE Returns(Nil, "operationOutcomeError")
              ELSE Returns(entry.resource, Nil)

\* handlePollCancelResponse that reports a successful cancellation as no error.
handlePollCancelResponseNilOnSuccess(resp) ==
    IF resp.status = 202
    THEN Nil
    ELSE "error while cancelling"

\* handlePollCancelResponse(location, resp): an error in both branches; the
\* second wraps handleErrorResponse(resp).
handlePollCancelResponse(resp) ==
    IF resp.status = 202
    THEN "successfully cancelled"
    ELSE "error while cancelling"

\* if wait < 10*time.Second { wait *= 2 }
NextWait(w) == IF w < TenSeconds THEN w * 2 ELSE w

\* The branch of the select on time.After(wait) from the response on
\* that returns on 202 instead of polling again.
HandleGetReturnsOn202(resp, w) ==
    IF ~resp.transportOk
    THEN [pc |-> "returned", wait |-> w, result |-> Returns(Nil, "transport")]
    ELSE IF resp.status = 200
    THEN [pc |-> "returned", wait |-> w, result |-> handlePollOkResponse(resp)]
    ELSE IF resp.status = 202
    THEN [pc |-> "returned", wait |-> w, result |-> Returns(Nil, Nil)]
    ELSE [pc |-> "returned", wait |-> w,
          result |-> Returns(Nil, handleErrorResponse(resp))]

\* The branch of the select on time.After(wait), from the response on:
\* where PollAsyncStatus goes next, with which wait and which return value.
HandleGet(resp, w) ==
    IF ~resp.transportOk
    THEN [pc |-> "returned", wait |-> w, result |-> Returns(Nil, "transport")]
    ELSE IF resp.status = 200
    THEN [pc |-> "returned", wait |-> w, result |-> handlePollOkResponse(resp)]
    ELSE IF resp.status = 202
    THEN IF ~resp.bodyOk
         \* DiscardAndClose(resp.Body) failed
         THEN [pc |-> "returned", wait |-> w, result |-> Returns(Nil, "transport")]
         ELSE [pc |-> "select", wait |-> NextWait(w), result |-> NoReturn]
    ELSE [pc |-> "returned", wait |-> w,
          result |-> Returns(Nil, handleErrorResponse(resp))]

\* PollAsyncStatus at the head of its loop: wait is 100 ms, the GET request
\* is built, interruptChan is empty.
InitPoll ==
    /\ pollPc = "select"
    /\ wait = HundredMilliseconds
    /\ signalPending = FALSE
    /\ cancelTaken = FALSE
    /\ polls = 0
    /\ deletes = 0
    /\ waited = <<>>
    /\ lastResponse = NoResponse
    /\ pollResult = NoReturn
    /\ bodies = [received |-> 0, drained |-> 0, closed |-> 0]
    /\ UploadIdle
    /\ DiscoveryIdle
    /\ RetryIdle
    /\ PagesIdle
    /\ CallsIdle

\* signal.Notify(interruptChan, os.Interrupt): an interrupt is put into the
\* channel, which holds one signal.
Interrupt ==
    /\ pollPc \in {"select", "get"}
    /\ ~signalPending
    /\ signalPending' = TRUE
    /\ UNCHANGED <<pollPc, wait, cancelTaken, polls, deletes, waited,
                   lastResponse, pollResult, bodies>>
    /\ UNCHANGED otherThanPoll

\* PollTimer of a select that takes the timer although a signal is pending.
PollTimerDespiteSignal ==
    /\ pollPc = "select"
    /\ polls < MaxPolls
    /\ polls' = polls + 1
    /\ waited' = Append(waited, wait)
    /\ pollPc' = "get"
    /\ UNCHANGED <<wait, signalPending, cancelTaken, deletes, lastResponse,
                   pollResult, bodies>>
    /\ UNCHANGED otherThanPoll

\* case <-time.After(wait): no signal came during the wait; the GET is sent.
PollTimer ==
    /\ pollPc = "select"
    /\ ~signalPending
    /\ polls < MaxPolls
    /\ polls' = polls + 1
    /\ waited' = Append(waited, wait)
    /\ pollPc' = "get"
    /\ UNCHANGED <<wait, signalPending, cancelTaken, deletes, lastResponse,
                   pollResult, bodies>>
    /\ UNCHANGED otherThanPoll

\* c.Do(req) returns and the response is handled.
PollGetResponse ==
    /\ pollPc = "get"
    /\ \E resp \in GetResponses :
           LET next == HandleGet(resp, wait) IN
           /\ lastResponse' = resp
           /\ pollPc' = next.pc
           /\ wait' = next.wait
           /\ pollResult' = next.result
           /\ bodies' = CountBody(bodies, resp, BodyAfterGet(resp))
    /\ UNCHANGED <<signalPending, cancelTaken, polls, deletes, waited>>
    /\ UNCHANGED otherThanPoll

\* case <-interruptChan: the DELETE request is built and sent.
PollCancel ==
    /\ pollPc = "select"
    /\ signalPending
    /\ signalPending' = FALSE
    /\ cancelTaken' = TRUE
    /\ deletes' = deletes + 1
    /\ pollPc' = "delete"
    /\ UNCHANGED <<wait, polls, waited, lastResponse, pollResult, bodies>>
    /\ UNCHANGED otherThanPoll

\* c.Do(req) of the DELETE returns: return nil, err or
\* return nil, handlePollCancelResponse(location, resp).
PollDeleteResponse ==
    /\ pollPc = "delete"
    /\ \E resp \in DeleteResponses :
           /\ lastResponse' = resp
           /\ pollResult' = IF resp.transportOk
                            THEN Returns(Nil, handlePollCancelResponse(resp))
                            ELSE Returns(Nil, "transport")
           /\ bodies' = CountBody(bodies, resp, BodyAfterDelete(resp))
    /\ pollPc' = "returned"
    /\ UNCHANGED <<wait, signalPending, cancelTaken, polls, deletes, waited>>
    /\ UNCHANGED otherThanPoll

NextPoll ==
    \/ Interrupt
    \/ PollTimer
    \/ PollGetResponse
    \/ PollCancel
    \/ PollDeleteResponse

SpecPoll == InitPoll /\ [][NextPoll]_vars


-----------------------------------------------------------------------------
(* evaluateMeasureWithRetry: cmd/evaluateMeasure.go *)

FiveSeconds == 5000

\* fm.IssueType, by its code.
TransientIssueTypes ==
    {"transient", "lock-error", "no-store", "timeout", "incomplete", "throttled"}
IssueTypes == TransientIssueTypes \cup {"processing", "not-found"}

\* isTransient(issue)
isTransient(issue) ==
    CASE issue = "transient" -> TRUE
      [] issue = "lock-error" -> TRUE
      [] issue = "no-store" -> TRUE
      [] issue = "timeout" -> TRUE
      [] issue = "incomplete" -> TRUE
      [] issue = "throttled" -> TRUE
      [] OTHER -> FALSE

\* outcome.Issue: up to MaxIssues issues.
IssueLists == UNION {[1..n -> IssueTypes] : n \in 0..MaxIssues}

\* An error value is the chain of the errors it wraps, the outermost first;
\* nil is the empty chain. Each link has its dynamic type and, for an
\* operationOutcomeError, the issues of its outcome.
NilError == <<>>
ErrorLink(type, issues) == [type |-> type, issues |-> issues]
\* errors.New / fmt.Errorf without %w: nothing to unwrap.
PlainError(type) == <<ErrorLink(type, <<>>)>>
\* fmt.Errorf("...%w", err)
WrapError(err) == <<ErrorLink("fmt.wrapError", <<>>)>> \o err
\* &operationOutcomeError{outcome} of package cmd, which has retryable();
\* the type of the same name of package fhir has not.
CmdOutcomeError(issues) == <<ErrorLink("cmd.operationOutcomeError", issues)>>
FhirOutcomeError(issues) == <<ErrorLink("fhir.operationOutcomeError", issues)>>

\* errors.Unwrap(err): the wrapped error of a type with an Unwrap method
\* (fmt.wrapError, url.Error), nil otherwise.
Unwrap(err) ==
    IF err # NilError /\ Head(err).type \in {"fmt.wrapError", "url.Error"}
    THEN Tail(err)
    ELSE NilError

\* retryable() that is true for an outcome with any issue.
retryableAnyIssue(issues) == Len(issues) > 0

\* (err *operationOutcomeError) retryable()
retryable(issues) == \E i \in DOMAIN issues : isTransient(issues[i])

\* isRetryable that looks, as errors.As does, through the whole chain for an
\* operationOutcomeError of either package.
isRetryableAnywhereInChain(err) ==
    \E i \in DOMAIN err :
        /\ err[i].type \in {"cmd.operationOutcomeError", "fhir.operationOutcomeError"}
        /\ retryable(err[i].issues)

\* isRetryable(err): the type assertion err.(retryableError), then retryable().
isRetryable(err) ==
    IF err # NilError /\ Head(err).type = "cmd.operationOutcomeError"
    THEN retryable(Head(err).issues)
    ELSE FALSE

\* What a call of evaluateMeasure returns when the response is no 202: the
\* MeasureReport of a 200, or nil and the error of the request, of the read
\* or of handleErrorResponse.
SyncOutcomes ==
    {Returns("MeasureReport", NilError)}
    \cup {Returns(Nil, e) : e \in
            {PlainError("NewTypeOperationRequest"),
             <<ErrorLink("url.Error", <<>>)>> \o PlainError("net.OpError"),
             PlainError("error while reading the MeasureReport"),
             PlainError("io.ReadAll"),
             PlainError("json.Unmarshal"),
             PlainError("non FHIR body")}}
    \cup {Returns(Nil, WrapError(CmdOutcomeError(issues))) : issues \in IssueLists}

\* What a call of evaluateMeasure returns after a 202: the MeasureReport of
\* PollAsyncStatus, or nil and the error of DiscardAndClose or the wrapped
\* error of PollAsyncStatus, which is plain, a transport error or the
\* wrapped operationOutcomeError of package fhir.
AsyncOutcomes ==
    {Returns("MeasureReport", NilError)}
    \cup {Returns(Nil, e) : e \in
            {PlainError("DiscardAndClose"),
             WrapError(PlainError("PollAsyncStatus")),
             WrapError(<<ErrorLink("url.Error", <<>>)>> \o PlainError("net.OpError"))}}
    \cup {Returns(Nil, WrapError(WrapError(FhirOutcomeError(issues)))) : issues \in IssueLists}

\* What one call of evaluateMeasure returns: the MeasureReport of a 200 or of
\* the async path, or nil and one of its errors.
AttemptOutcomes == SyncOutcomes \cup AsyncOutcomes

\* The outcomes of the branch of evaluateMeasure taken.
OutcomesOf(path) == IF path = "async" THEN AsyncOutcomes ELSE SyncOutcomes

\* evaluateMeasureWithRetry at the first test of its loop condition.
InitRetry ==
    /\ retryPc = "attempt"
    /\ retryWait = HundredMilliseconds
    /\ lastErr = NilError
    /\ lastReport = Nil
    /\ attempts = 0
    /\ slept = <<>>
    /\ retryResult = NoReturn
    /\ lastPath = Nil
    /\ UploadIdle
    /\ PollIdle
    /\ DiscoveryIdle
    /\ PagesIdle
    /\ CallsIdle

\* The loop body up to the sleep: evaluateMeasure, lastErr = err, and the
\* return unless the error is retryable.
RetryAttempt ==
    /\ retryPc = "attempt"
    /\ \E path \in {"sync", "async"} : \E out \in OutcomesOf(path) :
           /\ attempts' = attempts + 1
           /\ lastPath' = path
           /\ lastErr' = out.err
           /\ lastReport' = out.payload
           /\ IF ~isRetryable(Unwrap(out.err))
              THEN /\ retryPc' = "returned"
                   /\ retryResult' = Returns(out.payload, out.err)
              ELSE /\ retryPc' = "sleep"
                   /\ UNCHANGED retryResult
    /\ UNCHANGED <<retryWait, slept>>
    /\ UNCHANGED otherThanRetry

\* RetrySleep that returns no error when the loop ends.
RetrySleepReturnsNil ==
    /\ retryPc = "sleep"
    /\ slept' = Append(slept, retryWait)
    /\ retryWait' = retryWait * 2
    /\ IF retryWait * 2 < FiveSeconds
       THEN retryPc' = "attempt" /\ UNCHANGED retryResult
       ELSE retryPc' = "returned" /\ retryResult' = Returns(Nil, NilError)
    /\ UNCHANGED <<lastErr, lastReport, attempts, lastPath>>
    /\ UNCHANGED otherThanRetry

\* <-time.After(wait); wait *= 2; wait < 5*time.Second; after the loop
\* return nil, lastErr.
RetrySleep ==
    /\ retryPc = "sleep"
    /\ slept' = Append(slept, retryWait)
    /\ retryWait' = retryWait * 2
    /\ IF retryWait * 2 < FiveSeconds
       THEN retryPc' = "attempt" /\ UNCHANGED retryResult
       ELSE retryPc' = "returned" /\ retryResult' = Returns(Nil, lastErr)
    /\ UNCHANGED <<lastErr, lastReport, attempts, lastPath>>
    /\ UNCHANGED otherThanRetry

NextRetry ==
    \/ RetryAttempt
    \/ RetrySleep

SpecRetry == InitRetry /\ [][NextRetry]_vars


-----------------------------------------------------------------------------
(* The page streamer: ExpandPages of the fhir client, run by downloadHistory, *)
(* and downloadResources of cmd/download.go.                                  *)

\* A page URL is the number of its page; a nil *url.URL; a link target that
\* url.ParseRequestURI rejects.
PageUrls == 1..MaxPages
NoLink == 0
BadUrl == -1
LinkTargets == PageUrls \cup {BadUrl}

\* The parameters of Link header entries, as they stand between the ";".
RelNext == "rel=\"next\""
RelNextSpaced == " rel=\"next\" "
RelNextToken == "rel=next"
RelSelf == "rel=\"self\""
TitleParam == "title=\"x\""

\* strings.TrimSpace on these parameters.
TrimSpace(param) == IF param = RelNextSpaced THEN RelNext ELSE param

\* One entry of the Link header, split at ";": the part "<URL>" and the
\* parameters that follow it.
LinkEntry(target, params) == [target |-> target, params |-> params]

\* The Link headers of a response, split at ","; <<>> is no Link header.
LinkHeaders ==
    {<<>>, <<LinkEntry(1, <<RelSelf>>)>>}
    \cup {<<LinkEntry(t, <<prm>>)>> :
            t \in LinkTargets, prm \in {RelNext, RelNextToken}}
    \cup {<<LinkEntry(t, <<RelNext, TitleParam>>)>> : t \in PageUrls}
    \cup {<<LinkEntry(1, <<RelSelf>>), LinkEntry(t, <<RelNextSpaced>>)>> : t \in PageUrls}
    \cup {<<LinkEntry(t, <<RelNext, TitleParam>>), LinkEntry(u, <<RelNext>>)>> :
            t \in PageUrls, u \in {1}}
    \cup {<<LinkEntry(t, <<RelNext>>), LinkEntry(u, <<RelNext>>)>> :
            t \in PageUrls, u \in {1}}

\* fm.BundleLink{Relation, Url} and the link lists of a bundle.
BundleLink(relation, url) == [relation |-> relation, url |-> url]
BundleLinkLists ==
    {<<>>}
    \cup {<<BundleLink("next", t)>> : t \in LinkTargets}
    \cup {<<BundleLink("self", 1), BundleLink("next", t)>> : t \in PageUrls}

\* What one iteration of the streamer meets: the request cannot be created,
\* client.Do fails, or a response with its status, whether its body can be
\* read and closed, whether the body is the JSON expected (a bundle for 200,
\* an OperationOutcome otherwise), its Link header and the links in the body.
PageResponse(kind, status, readOk, closeOk, jsonOk, header, links) ==
    [kind |-> kind, status |-> status, readOk |-> readOk, closeOk |-> closeOk,
     jsonOk |-> jsonOk, header |-> header, links |-> links]
PageFailure(kind) == PageResponse(kind, 0, FALSE, FALSE, FALSE, <<>>, <<>>)
NoPage == PageFailure("none")

\* downloadResources never reads the Link header: its responses carry none.
PageResponses(s, first) ==
    {PageFailure("transportErr")}
    \cup (IF first /\ s = "downloadHistory" THEN {} ELSE {PageFailure("createErr")})
    \cup {PageResponse("response", st, FALSE, TRUE, FALSE, <<>>, <<>>) : st \in {200, 404}}
    \cup {PageResponse("response", st, TRUE, FALSE, TRUE, <<>>, <<>>) : st \in {200, 404}}
    \cup {PageResponse("response", 404, TRUE, TRUE, j, <<>>, <<>>) : j \in BOOLEAN}
    \cup {PageResponse("response", 200, TRUE, TRUE, FALSE, h, <<>>) :
            h \in {<<>>} \cup (IF s = "downloadHistory"
                               THEN {<<LinkEntry(MaxPages, <<RelNext>>)>>} ELSE {})}
    \cup {PageResponse("response", 200, TRUE, TRUE, TRUE, <<>>, l) : l \in BundleLinkLists}
    \cup (IF s = "downloadHistory"
          THEN {PageResponse("response", 200, TRUE, TRUE, TRUE, h, l) :
                  h \in LinkHeaders \ {<<>>},
                  l \in {<<>>, <<BundleLink("next", MaxPages)>>}}
          ELSE {})

\* url.ParseRequestURI(target): the URL, or nil and an error.
ParseRequestURI(target) ==
    IF target = BadUrl THEN [url |-> NoLink, err |-> TRUE]
    ELSE [url |-> target, err |-> FALSE]

\* nextLinkFromHeader(linkHeader): the first entry that has two parts, the
\* second being rel="next" after trimming.
nextLinkFromHeader(header) ==
    LET matching == {k \in DOMAIN header :
                        /\ 1 + Len(header[k].params) = 2
                        /\ TrimSpace(header[k].params[1]) = RelNext} IN
    IF matching = {} THEN [url |-> NoLink, err |-> FALSE]
    ELSE LET k == CHOOSE k \in matching : \A j \in matching : k <= j IN
         ParseRequestURI(header[k].target)

\* nextLinkFromBundle(links) and getNextPageURL(links): the first link with
\* the relation next.
nextLinkFromBundle(links) ==
    LET matching == {k \in DOMAIN links : links[k].relation = "next"} IN
    IF matching = {} THEN [url |-> NoLink, err |-> FALSE]
    ELSE LET k == CHOOSE k \in matching : \A j \in matching : k <= j IN
         ParseRequestURI(links[k].url)

\* DownloadBundle: the page of a URL, or an error with or without stats and
\* ErrResponse (its status code; 0 for nil).
PageResult(url) == [url |-> url, err |-> Nil, stats |-> TRUE, errResponse |-> 0]
PageError(err, stats, errResponse) ==
    [url |-> NoLink, err |-> err, stats |-> stats, errResponse |-> errResponse]

\* What one iteration does: the results it sends and the next link with which
\* the loop goes on (NoLink: the function returns).
Iteration(results, next) == [results |-> results, next |-> next]

\* The result for a response whose status is not 200.
NonOkResult(resp) ==
    IF resp.jsonOk
    THEN PageError("non-ok response status", TRUE, resp.status)
    ELSE PageError("operation outcome could not be parsed", TRUE, 0)

\* ExpandPages that does not return after the result of a non-200 response
\* and looks for a next link in it.
ExpandPagesGoesOnAfterNonOk(url, resp) ==
    IF resp.kind = "createErr"
    THEN Iteration(<<PageError("could not create FHIR server request", FALSE, 0)>>, NoLink)
    ELSE IF resp.kind = "transportErr"
    THEN Iteration(<<PageError("could not request the FHIR server", FALSE, 0)>>, NoLink)
    ELSE IF ~resp.readOk
    THEN Iteration(<<PageError("could not read FHIR server response", FALSE, 0)>>, NoLink)
    ELSE IF ~resp.closeOk
    THEN Iteration(<<PageError("could not close the response body", FALSE, 0)>>, NoLink)
    ELSE IF resp.status # 200
    THEN Iteration(<<NonOkResult(resp), PageResult(url)>>, NoLink)
    ELSE IF resp.header # <<>>
    THEN LET nl == nextLinkFromHeader(resp.header) IN
         IF nl.err
         THEN Iteration(<<PageError("could not parse the self link", FALSE, 0)>>, NoLink)
         ELSE Iteration(<<PageResult(url)>>, nl.url)
    ELSE IF ~resp.jsonOk
    THEN Iteration(<<PageError("could not parse FHIR server response", FALSE, 0)>>, NoLink)
    ELSE LET nl == nextLinkFromBundle(resp.links) IN
         IF nl.err
         THEN Iteration(<<PageError("could not parse the next page link", FALSE, 0)>>, NoLink)
         ELSE Iteration(<<PageResult(url)>>, nl.url)

\* One pass of the loop of ExpandPages for the request to url.
ExpandPages(url, resp) ==
    IF resp.kind = "createErr"
    THEN Iteration(<<PageError("could not create FHIR server request", FALSE, 0)>>, NoLink)
    ELSE IF resp.kind = "transportErr"
    THEN Iteration(<<PageError("could not request the FHIR server", FALSE, 0)>>, NoLink)
    ELSE IF ~resp.readOk
    THEN Iteration(<<PageError("could not read FHIR server response", FALSE, 0)>>, NoLink)
    ELSE IF ~resp.closeOk
    THEN Iteration(<<PageError("could not close the response body", FALSE, 0)>>, NoLink)
    ELSE IF resp.status # 200
    THEN Iteration(<<NonOkResult(resp)>>, NoLink)
    ELSE IF resp.header # <<>>
    THEN LET nl == nextLinkFromHeader(resp.header) IN
         IF nl.err
         THEN Iteration(<<PageError("could not parse the self link", FALSE, 0)>>, NoLink)
         ELSE Iteration(<<PageResult(url)>>, nl.url)
    ELSE IF ~resp.jsonOk
    THEN Iteration(<<PageError("could not parse FHIR server response", FALSE, 0)>>, NoLink)
    ELSE LET nl == nextLinkFromBundle(resp.links) IN
         IF nl.err
         THEN Iteration(<<PageError("could not parse the next page link", FALSE, 0)>>, NoLink)
         ELSE Iteration(<<PageResult(url)>>, nl.url)

\* One pass of the loop of downloadResources for the request to url: the
\* page is sent before the next link is looked for, and the error of
\* response.Body.Close() is dropped.
downloadResources(url, resp) ==
    IF resp.kind = "createErr"
    THEN Iteration(<<PageError("could not create FHIR server request", FALSE, 0)>>, NoLink)
    ELSE IF resp.kind = "transportErr"
    THEN Iteration(<<PageError("could not request the FHIR server", FALSE, 0)>>, NoLink)
    ELSE IF resp.status # 200
    THEN IF ~resp.readOk
         THEN Iteration(<<PageError("body could not be read", FALSE, 0)>>, NoLink)
         ELSE Iteration(<<NonOkResult(resp)>>, NoLink)
    ELSE IF ~resp.readOk
    THEN Iteration(<<PageError("could not read FHIR server response", FALSE, 0)>>, NoLink)
    ELSE IF ~resp.jsonOk
    THEN Iteration(<<PageError("could not parse FHIR server response", FALSE, 0)>>, NoLink)
    ELSE LET nl == nextLinkFromBundle(resp.links) IN
         IF nl.err
         THEN Iteration(<<PageResult(url),
                          PageError("could not parse the next page link", FALSE, 0)>>, NoLink)
         ELSE Iteration(<<PageResult(url)>>, nl.url)

\* The next link of a page as the server states it: with a Link header the
\* target of its first entry that has the parameter rel with the value next,
\* quoted or not, else the target of the first link of the body with the
\* relation next.
ServerNext(resp) ==
    IF resp.header # <<>>
    THEN LET isNext(e) == \E i \in DOMAIN e.params :
                              TrimSpace(e.params[i]) \in {RelNext, RelNextToken}
             matching == {k \in DOMAIN resp.header : isNext(resp.header[k])} IN
         IF matching = {} THEN NoLink
         ELSE resp.header[CHOOSE k \in matching : \A j \in matching : k <= j].target
    ELSE LET matching == {k \in DOMAIN resp.links : resp.links[k].relation = "next"} IN
         IF matching = {} THEN NoLink
         ELSE resp.links[CHOOSE k \in matching : \A j \in matching : k <= j].url

\* The response is a page: 200, its body read, closed and parsed.
IsPage(resp) ==
    /\ resp.kind = "response"
    /\ resp.status = 200
    /\ resp.readOk /\ resp.closeOk /\ resp.jsonOk

\* The producer goroutine at the loop of the streamer, with the initial
\* request built (page 1), and the consumer ranging over the channel.
InitPages ==
    /\ streamer \in {"downloadResources", "downloadHistory"}
    /\ pagePc = "request"
    /\ request = 1
    /\ requests = <<>>
    /\ lastPage = NoPage
    /\ chain = TRUE
    /\ emitted = <<>>
    /\ pageChCloses = 0
    /\ consumerPc = "range"
    /\ UploadIdle
    /\ PollIdle
    /\ DiscoveryIdle
    /\ RetryIdle
    /\ CallsIdle

\* One pass of the loop: the request is created and sent, the response is
\* handled, its results are sent on resChannel and taken by the consumer.
PageStep ==
    /\ pagePc = "request"
    /\ Len(requests) <= MaxPages
    /\ \E resp \in PageResponses(streamer, requests = <<>>) :
           LET it == IF streamer = "downloadHistory"
                     THEN ExpandPages(request, resp)
                     ELSE downloadResources(request, resp) IN
           /\ lastPage' = resp
           /\ requests' = IF resp.kind = "createErr" THEN requests
                          ELSE Append(requests, request)
           /\ chain' = (/\ chain
                        /\ IsPage(resp)
                        /\ ServerNext(resp) # BadUrl
                        /\ \A k \in DOMAIN requests' : requests'[k] # ServerNext(resp))
           /\ emitted' = emitted \o it.results
           /\ IF it.next = NoLink
              THEN pagePc' = "returned" /\ UNCHANGED request
              ELSE pagePc' = "request" /\ request' = it.next
    /\ UNCHANGED <<streamer, pageChCloses, consumerPc>>
    /\ UNCHANGED otherThanPages

\* downloadResources whose close is skipped on the error paths.
DownloadResourcesCloseOnSuccessOnly ==
    /\ streamer = "downloadResources"
    /\ pagePc = "returned"
    /\ pageChCloses' = pageChCloses +
           (IF emitted # <<>> /\ emitted[Len(emitted)].err # Nil THEN 0 ELSE 1)
    /\ pagePc' = "closed"
    /\ UNCHANGED <<streamer, request, requests, lastPage, chain, emitted, consumerPc>>
    /\ UNCHANGED otherThanPages

\* downloadResources: defer close(resChannel).
DownloadResourcesClose ==
    /\ streamer = "downloadResources"
    /\ pagePc = "returned"
    /\ pageChCloses' = pageChCloses + 1
    /\ pagePc' = "closed"
    /\ UNCHANGED <<streamer, request, requests, lastPage, chain, emitted, consumerPc>>
    /\ UNCHANGED otherThanPages

\* downloadHistory, the caller of ExpandPages: closes the channel when
\* ExpandPages has returned.
DownloadHistoryClose ==
    /\ streamer = "downloadHistory"
    /\ pagePc = "returned"
    /\ pageChCloses' = pageChCloses + 1
    /\ pagePc' = "closed"
    /\ UNCHANGED <<streamer, request, requests, lastPage, chain, emitted, consumerPc>>
    /\ UNCHANGED otherThanPages

\* for bundle := range bundleChannel ends when the channel is closed.
PageConsumerRangeEnd ==
    /\ consumerPc = "range"
    /\ pageChCloses > 0
    /\ consumerPc' = "done"
    /\ UNCHANGED <<streamer, pagePc, request, requests, lastPage, chain, emitted,
                   pageChCloses>>
    /\ UNCHANGED otherThanPages

NextPages ==
    \/ PageStep
    \/ DownloadResourcesClose
    \/ DownloadHistoryClose
    \/ PageConsumerRangeEnd

SpecPages == InitPages /\ [][NextPages]_vars

\* The goroutines are scheduled as long as they can take a step.
FairSpecPages == SpecPages /\ WF_vars(NextPages)


-----------------------------------------------------------------------------
(* Bundle discovery: createUploadBundles with its two producers, the chunk *)
(* scanner CalculateFileChunks, the closer and the collector.              *)

\* const MultiBundleFileBundleDelimiter = byte('\n')
MultiBundleFileBundleDelimiter == 10
\* Any other byte.
OtherByte == 120
\* const chunksCalculationBufferSizeBytes = 4096
chunksCalculationBufferSizeBytes == 4096

Min(a, b) == IF a < b THEN a ELSE b

\* The contents of a file: up to MaxFileLen bytes.
FileContents ==
    UNION { [1..n -> {MultiBundleFileBundleDelimiter, OtherByte}] : n \in 0..MaxFileLen }

\* A single-bundle file: its name, whether os.Open and f.Stat succeed, its size.
SingleFile(name, openOk, statOk, size) ==
    [name |-> name, openOk |-> openOk, statOk |-> statOk, size |-> size]

\* A multi-bundle file: its name, whether os.Open succeeds, its content.
MultiFile(name, openOk, data) == [name |-> name, openOk |-> openOk, data |-> data]

\* The lists f.singleBundleFiles of the directories considered.
SingleFileLists ==
    {<<>>}
    \cup {<<SingleFile("a.json", FALSE, FALSE, 0)>>,
          <<SingleFile("a.json", TRUE, FALSE, 0)>>,
          <<SingleFile("a.json", TRUE, TRUE, 0)>>,
          <<SingleFile("a.json", TRUE, TRUE, 2)>>,
          <<SingleFile("a.json", TRUE, TRUE, 2), SingleFile("c.json", TRUE, TRUE, 1)>>}

\* The lists f.multiBundleFiles of the directories considered.
MultiFileLists ==
    {<<>>}
    \cup {<<MultiFile("b.ndjson", FALSE, <<>>)>>}
    \cup {<<MultiFile("b.ndjson", TRUE, d)>> : d \in FileContents}
    \cup {<<MultiFile("b.ndjson", TRUE, <<OtherByte, MultiBundleFileBundleDelimiter>>),
            MultiFile("d.ndjson", TRUE, <<OtherByte>>)>>}

\* FileChunkCalculationResult{FileChunk{ChunkNumber, StartBytes, EndBytes}, Err}
FileChunkCalculationResult(n, s, e, err) ==
    [FileChunk |-> [ChunkNumber |-> n, StartBytes |-> s, EndBytes |-> e], Err |-> err]

\* createUploadBundles up to the start of its range loop: producerWg.Add(2)
\* and the three goroutines started; the scanner not yet.
InitDiscovery ==
    /\ singleFiles \in SingleFileLists
    /\ multiFiles \in MultiFileLists
    /\ producerWg = 2
    /\ spPc = "file"
    /\ spIdx = 1
    /\ spMsg = Nil
    /\ mpPc = "file"
    /\ mpIdx = 1
    /\ mpMsg = Nil
    /\ scPc = "idle"
    /\ scBuf = 0
    /\ scIdx = 0
    /\ lastSeenDelimiterTokenOffsetBytes = 0
    /\ alreadyReadBytes = 0
    /\ chunkNumber = 0
    /\ scMsg = Nil
    /\ readErrors = 0
    /\ calcResCloses = 0
    /\ bundleChCloses = 0
    /\ closerPc = "wait"
    /\ collectorPc = "range"
    /\ collected = <<>>
    /\ discPanicked = FALSE
    /\ calcResSent = [i \in 1..Len(multiFiles) |-> <<>>]
    /\ UploadIdle
    /\ PollIdle
    /\ RetryIdle
    /\ PagesIdle
    /\ CallsIdle

\* The bundle the single-file producer builds for file f.
SingleFileBundle(f) ==
    IF ~f.openOk THEN OpenErrBundle(f.name)
    ELSE IF ~f.statOk THEN StatErrBundle(f.name)
    ELSE SingleBundle(f.name, f.size)

\* createUploadBundlesFromSingleBundleFiles: one iteration up to its send,
\* or wg.Done() after the last file.
SingleProducerStep ==
    /\ spPc = "file"
    /\ IF spIdx <= Len(singleFiles)
       THEN /\ spMsg' = SingleFileBundle(singleFiles[spIdx])
            /\ spPc' = "send"
            /\ UNCHANGED producerWg
       ELSE /\ producerWg' = producerWg - 1
            /\ spPc' = "done"
            /\ UNCHANGED spMsg
    /\ UNCHANGED <<singleFiles, multiFiles, spIdx, mpPc, mpIdx, mpMsg, scPc,
                   scBuf, scIdx, lastSeenDelimiterTokenOffsetBytes,
                   alreadyReadBytes, chunkNumber, scMsg, readErrors,
                   calcResCloses, bundleChCloses, closerPc, collectorPc,
                   collected, discPanicked>>
    /\ UNCHANGED calcResSent
    /\ UNCHANGED otherThanDiscovery

\* ubp.res <- bundle of the single-file producer, taken by the range loop of
\* createUploadBundles (bundles = append(bundles, bundle)). A send on the
\* closed channel panics.
SingleProducerSend ==
    /\ spPc = "send"
    /\ IF bundleChCloses > 0
       THEN /\ discPanicked' = TRUE
            /\ spPc' = "panic"
            /\ UNCHANGED <<collected, spIdx>>
       ELSE /\ collectorPc = "range"
            /\ collected' = Append(collected, spMsg)
            /\ spIdx' = spIdx + 1
            /\ spPc' = "file"
            /\ UNCHANGED discPanicked
    /\ UNCHANGED <<singleFiles, multiFiles, producerWg, spMsg, mpPc, mpIdx,
                   mpMsg, scPc, scBuf, scIdx,
                   lastSeenDelimiterTokenOffsetBytes, alreadyReadBytes,
                   chunkNumber, scMsg, readErrors, calcResCloses,
                   bundleChCloses, closerPc, collectorPc>>
    /\ UNCHANGED calcResSent
    /\ UNCHANGED otherThanDiscovery

\* createUploadBundlesFromMultiBundleFiles: os.Open of the next file; on
\* success the scanner goroutine is started on a new channel calcRes; after
\* the last file wg.Done().
MultiProducerStep ==
    /\ mpPc = "file"
    /\ IF mpIdx > Len(multiFiles)
       THEN /\ producerWg' = producerWg - 1
            /\ mpPc' = "done"
            /\ UNCHANGED <<mpMsg, scPc, scBuf, scIdx, lastSeenDelimiterTokenOffsetBytes,
                           alreadyReadBytes, chunkNumber, scMsg, calcResCloses>>
       ELSE IF ~multiFiles[mpIdx].openOk
       THEN /\ mpMsg' = OpenErrBundle(multiFiles[mpIdx].name)
            /\ mpPc' = "sendOpenErr"
            /\ UNCHANGED <<producerWg, scPc, scBuf, scIdx,
                           lastSeenDelimiterTokenOffsetBytes, alreadyReadBytes,
                           chunkNumber, scMsg, calcResCloses>>
       ELSE /\ mpPc' = "range"
            /\ scPc' = "read"
            /\ scBuf' = 0
            /\ scIdx' = 0
            /\ lastSeenDelimiterTokenOffsetBytes' = 0
            /\ alreadyReadBytes' = 0
            /\ chunkNumber' = 0
            /\ scMsg' = Nil
            /\ calcResCloses' = 0
            /\ UNCHANGED <<producerWg, mpMsg>>
    /\ UNCHANGED <<singleFiles, multiFiles, spPc, spIdx, spMsg, mpIdx,
                   readErrors, bundleChCloses, closerPc, collectorPc,
                   collected, discPanicked>>
    /\ UNCHANGED calcResSent
    /\ UNCHANGED otherThanDiscovery

\* The bytes of the current file that the reader has not yet returned.
Remaining == Len(multiFiles[mpIdx].data) - alreadyReadBytes

\* HasUnterminatedTail that also holds for an empty tail.
HasTailOrEmpty == alreadyReadBytes >= lastSeenDelimiterTokenOffsetBytes

\* CalculateFileChunks at io.EOF: if alreadyReadBytes >
\* lastSeenDelimiterTokenOffsetBytes, "for when r does not end with the
\* delimiter".
HasUnterminatedTail == alreadyReadBytes > lastSeenDelimiterTokenOffsetBytes

\* OffsetAfterDelimiter that yields the offset of the delimiter itself.
OffsetOfDelimiter(idx) == alreadyReadBytes + idx

\* OffsetAfterDelimiter that skips the byte after the delimiter as well.
OffsetTwoAfterDelimiter(idx) == alreadyReadBytes + idx + 2

\* CalculateFileChunks: lastSeenDelimiterTokenOffsetBytes = alreadyReadBytes +
\* int64(idx) + 1
OffsetAfterDelimiter(idx) == alreadyReadBytes + idx + 1

\* CalculateFileChunks: n, err := r.Read(buf[:cap(buf)]). The reader returns
\* some of the remaining bytes, io.EOF when there are none, or fails. (A read
\* of no bytes and no error repeats the read.)
ScannerRead ==
    /\ scPc = "read"
    /\ \/ \* n > 0
          /\ \E n \in 1..Min(Remaining, chunksCalculationBufferSizeBytes) :
                 scBuf' = n
          /\ scIdx' = 0
          /\ scPc' = "scan"
          /\ UNCHANGED <<scMsg, readErrors>>
       \/ \* n == 0, err == io.EOF
          /\ Remaining = 0
          /\ IF HasUnterminatedTail
             THEN /\ scMsg' = FileChunkCalculationResult(chunkNumber + 1,
                                 lastSeenDelimiterTokenOffsetBytes, alreadyReadBytes, Nil)
                  /\ scPc' = "sendLast"
             ELSE /\ scPc' = "close"
                  /\ UNCHANGED scMsg
          /\ UNCHANGED <<scBuf, scIdx, readErrors>>
       \/ \* n == 0, any other error
          /\ readErrors < MaxReadErrors
          /\ readErrors' = readErrors + 1
          /\ scMsg' = FileChunkCalculationResult(chunkNumber, 0, 0, "read")
          /\ scBuf' = 0
          /\ scIdx' = 0
          /\ scPc' = "sendErr"
    /\ UNCHANGED <<singleFiles, multiFiles, producerWg, spPc, spIdx, spMsg,
                   mpPc, mpIdx, mpMsg, lastSeenDelimiterTokenOffsetBytes,
                   alreadyReadBytes, chunkNumber, calcResCloses,
                   bundleChCloses, closerPc, collectorPc, collected,
                   discPanicked>>
    /\ UNCHANGED calcResSent
    /\ UNCHANGED otherThanDiscovery

\* ChunkEndBytes that takes the delimiter into the chunk.
ChunkEndBytesInclusive(idx) == alreadyReadBytes + idx + 1

\* CalculateFileChunks: EndBytes: alreadyReadBytes + int64(idx)
ChunkEndBytes(idx) == alreadyReadBytes + idx

\* The indexes idx >= scIdx of buf that hold the delimiter.
DelimitersAhead ==
    {j \in scIdx..(scBuf - 1) :
        multiFiles[mpIdx].data[alreadyReadBytes + j + 1] = MultiBundleFileBundleDelimiter}

\* CalculateFileChunks: for idx, b := range buf, up to the next delimiter, at
\* which the chunk is built; at the end of buf, alreadyReadBytes += int64(n).
ScannerScan ==
    /\ scPc = "scan"
    /\ IF DelimitersAhead # {}
       THEN LET idx == CHOOSE j \in DelimitersAhead : \A k \in DelimitersAhead : j <= k IN
            /\ chunkNumber' = chunkNumber + 1
            /\ scMsg' = FileChunkCalculationResult(chunkNumber + 1,
                            lastSeenDelimiterTokenOffsetBytes, ChunkEndBytes(idx), Nil)
            /\ scIdx' = idx
            /\ scPc' = "sendChunk"
            /\ UNCHANGED alreadyReadBytes
       ELSE /\ alreadyReadBytes' = alreadyReadBytes + scBuf
            /\ scPc' = "read"
            /\ UNCHANGED <<chunkNumber, scMsg, scIdx>>
    /\ UNCHANGED <<singleFiles, multiFiles, producerWg, spPc, spIdx, spMsg,
                   mpPc, mpIdx, mpMsg, scBuf,
                   lastSeenDelimiterTokenOffsetBytes, readErrors,
                   calcResCloses, bundleChCloses, closerPc, collectorPc,
                   collected, discPanicked>>
    /\ UNCHANGED calcResSent
    /\ UNCHANGED otherThanDiscovery

\* IsSkipped that also skips the chunks of one byte.
IsSkippedUpToOneByte(res) ==
    res.Err = Nil /\ res.FileChunk.EndBytes - res.FileChunk.StartBytes <= 1

\* createUploadBundlesFromMultiBundleFiles: if res.FileChunk.StartBytes ==
\* res.FileChunk.EndBytes { continue } for a result without error.
IsSkipped(res) ==
    res.Err = Nil /\ res.FileChunk.StartBytes = res.FileChunk.EndBytes

\* The bundle the multi-file producer builds for a result of the scanner.
MultiFileBundle(name, res) ==
    IF res.Err # Nil THEN ReadErrBundle(name, res.FileChunk.ChunkNumber)
    ELSE ChunkBundle(name, res.FileChunk.ChunkNumber,
                     res.FileChunk.StartBytes, res.FileChunk.EndBytes)

\* res <- FileChunkCalculationResult{...} of the scanner, taken by
\* for res := range calcRes of the multi-file producer. After the send the
\* scanner sets lastSeenDelimiterTokenOffsetBytes (a chunk), closes res (the
\* last chunk) or reads again (an error).
ScannerSend ==
    /\ scPc \in {"sendChunk", "sendLast", "sendErr"}
    /\ mpPc = "range"
    /\ IF IsSkipped(scMsg)
       THEN UNCHANGED <<mpMsg, mpPc>>
       ELSE /\ mpMsg' = MultiFileBundle(multiFiles[mpIdx].name, scMsg)
            /\ mpPc' = "send"
    /\ IF scPc = "sendChunk"
       THEN /\ lastSeenDelimiterTokenOffsetBytes' = OffsetAfterDelimiter(scIdx)
            /\ scIdx' = scIdx + 1
            /\ scPc' = "scan"
       ELSE /\ scPc' = (IF scPc = "sendLast" THEN "close" ELSE "scan")
            /\ UNCHANGED <<lastSeenDelimiterTokenOffsetBytes, scIdx>>
    /\ UNCHANGED <<singleFiles, multiFiles, producerWg, spPc, spIdx, spMsg,
                   mpIdx, scBuf, alreadyReadBytes, chunkNumber, scMsg,
                   readErrors, calcResCloses, bundleChCloses, closerPc,
                   collectorPc, collected, discPanicked>>
    /\ calcResSent' = [calcResSent EXCEPT ![mpIdx] = Append(@, scMsg)]
    /\ UNCHANGED otherThanDiscovery

\* CalculateFileChunks: close(res); break
ScannerClose ==
    /\ scPc = "close"
    /\ calcResCloses' = calcResCloses + 1
    /\ scPc' = "idle"
    /\ UNCHANGED <<singleFiles, multiFiles, producerWg, spPc, spIdx, spMsg,
                   mpPc, mpIdx, mpMsg, scBuf, scIdx,
                   lastSeenDelimiterTokenOffsetBytes, alreadyReadBytes,
                   chunkNumber, scMsg, readErrors, bundleChCloses, closerPc,
                   collectorPc, collected, discPanicked>>
    /\ UNCHANGED calcResSent
    /\ UNCHANGED otherThanDiscovery

\* ubp.res <- bundle of the multi-file producer, taken by the range loop of
\* createUploadBundles. A send on the closed channel panics.
MultiProducerSend ==
    /\ mpPc \in {"send", "sendOpenErr"}
    /\ IF bundleChCloses > 0
       THEN /\ discPanicked' = TRUE
            /\ mpPc' = "panic"
            /\ UNCHANGED <<collected, mpIdx>>
       ELSE /\ collectorPc = "range"
            /\ collected' = Append(collected, mpMsg)
            /\ IF mpPc = "sendOpenErr"
               THEN mpIdx' = mpIdx + 1 /\ mpPc' = "file"
               ELSE mpPc' = "range" /\ UNCHANGED mpIdx
            /\ UNCHANGED discPanicked
    /\ UNCHANGED <<singleFiles, multiFiles, producerWg, spPc, spIdx, spMsg,
                   mpMsg, scPc, scBuf, scIdx,
                   lastSeenDelimiterTokenOffsetBytes, alreadyReadBytes,
                   chunkNumber, scMsg, readErrors, calcResCloses,
                   bundleChCloses, closerPc, collectorPc>>
    /\ UNCHANGED calcResSent
    /\ UNCHANGED otherThanDiscovery

\* createUploadBundlesFromMultiBundleFiles: the range over calcRes ends when
\* the scanner has closed it; f.Close(); next file.
MultiProducerRangeEnd ==
    /\ mpPc = "range"
    /\ calcResCloses > 0
    /\ mpIdx' = mpIdx + 1
    /\ mpPc' = "file"
    /\ UNCHANGED <<singleFiles, multiFiles, producerWg, spPc, spIdx, spMsg,
                   mpMsg, scPc, scBuf, scIdx,
                   lastSeenDelimiterTokenOffsetBytes, alreadyReadBytes,
                   chunkNumber, scMsg, readErrors, calcResCloses,
                   bundleChCloses, closerPc, collectorPc, collected,
                   discPanicked>>
    /\ UNCHANGED calcResSent
    /\ UNCHANGED otherThanDiscovery

\* CloseBundleCh that does not wait for the producers.
CloseBundleChNoWait ==
    /\ closerPc = "wait"
    /\ bundleChCloses' = bundleChCloses + 1
    /\ discPanicked' = (discPanicked \/ bundleChCloses > 0)
    /\ closerPc' = "done"
    /\ UNCHANGED <<singleFiles, multiFiles, producerWg, spPc, spIdx, spMsg,
                   mpPc, mpIdx, mpMsg, scPc, scBuf, scIdx,
                   lastSeenDelimiterTokenOffsetBytes, alreadyReadBytes,
                   chunkNumber, scMsg, readErrors, calcResCloses,
                   collectorPc, collected>>
    /\ UNCHANGED calcResSent
    /\ UNCHANGED otherThanDiscovery

\* createUploadBundles: go func(wg, bundleCh) { wg.Wait(); close(bundleCh) }
CloseBundleCh ==
    /\ closerPc = "wait"
    /\ producerWg = 0
    /\ bundleChCloses' = bundleChCloses + 1
    /\ discPanicked' = (discPanicked \/ bundleChCloses > 0)
    /\ closerPc' = "done"
    /\ UNCHANGED <<singleFiles, multiFiles, producerWg, spPc, spIdx, spMsg,
                   mpPc, mpIdx, mpMsg, scPc, scBuf, scIdx,
                   lastSeenDelimiterTokenOffsetBytes, alreadyReadBytes,
                   chunkNumber, scMsg, readErrors, calcResCloses,
                   collectorPc, collected>>
    /\ UNCHANGED calcResSent
    /\ UNCHANGED otherThanDiscovery

\* createUploadBundles: the range over ubp.res ends when the channel is
\* closed; the summary is returned.
CollectorRangeEnd ==
    /\ collectorPc = "range"
    /\ bundleChCloses > 0
    /\ collectorPc' = "done"
    /\ UNCHANGED <<singleFiles, multiFiles, producerWg, spPc, spIdx, spMsg,
                   mpPc, mpIdx, mpMsg, scPc, scBuf, scIdx,
                   lastSeenDelimiterTokenOffsetBytes, alreadyReadBytes,
                   chunkNumber, scMsg, readErrors, calcResCloses,
                   bundleChCloses, closerPc, collected, discPanicked>>
    /\ UNCHANGED calcResSent
    /\ UNCHANGED otherThanDiscovery

NextDiscovery ==
    \/ SingleProducerStep
    \/ SingleProducerSend
    \/ MultiProducerStep
    \/ ScannerRead
    \/ ScannerScan
    \/ ScannerSend
    \/ ScannerClose
    \/ MultiProducerSend
    \/ MultiProducerRangeEnd
    \/ CloseBundleCh
    \/ CollectorRangeEnd

SpecDiscovery == InitDiscovery /\ [][NextDiscovery]_vars


-----------------------------------------------------------------------------
(* WriteResources (fhir/resources.go) *)

\* An entry without resource: e.Resource == nil.
NoResource == [present |-> FALSE, id |-> 0, spaced |-> FALSE, outcomeOk |-> FALSE]

\* The json.RawMessage of the resource of an entry: which resource it is,
\* whether its text has insignificant whitespace, and whether
\* fm.UnmarshalOperationOutcome accepts it.
RawResource(id, spaced, outcomeOk) ==
    [present |-> TRUE, id |-> id, spaced |-> spaced, outcomeOk |-> outcomeOk]

RawResources == {RawResource(1, sp, ok) : sp \in BOOLEAN, ok \in BOOLEAN}

\* e.Search == nil, e.Search without mode (Mode == nil), and the modes.
SearchAbsent == "absent"
SearchWithoutMode == "no mode"
SearchEntryModeMatch == "match"
SearchEntryModeInclude == "include"
SearchEntryModeOutcome == "outcome"

Searches ==
    {SearchAbsent, SearchWithoutMode, SearchEntryModeMatch,
     SearchEntryModeInclude, SearchEntryModeOutcome}

\* fm.BundleEntry{Resource, Search}
BundleEntry(resource, search) == [Resource |-> resource, Search |-> search]

SearchBundleEntries ==
    {BundleEntry(r, m) : r \in RawResources \cup {NoResource}, m \in Searches}

EntryLists ==
    UNION {[1..n -> SearchBundleEntries] : n \in 0..MaxEntries}

\* The argument data: no bytes, bytes that json.Unmarshal rejects, or the
\* JSON of a bundle with the given entries.
BundleData(kind, entries) == [kind |-> kind, Entry |-> entries]

WriteResourcesData ==
    {BundleData("empty", <<>>), BundleData("invalid", <<>>)}
    \cup {BundleData("bundle", es) : es \in EntryLists}

\* The argument sink: the number of the Write call that fails, 0 for none.
SinkFailures == 0..(2 * MaxEntries)

\* What a Write call puts into the sink: the bytes of a resource or '\n'.
ResourceBytes(r) == [kind |-> "resource", resource |-> r]
NewlineByte == [kind |-> "newline", resource |-> NoResource]

\* json.Compact(&buf, e.Resource): the text without insignificant
\* whitespace. (It cannot fail: json.Unmarshal has validated e.Resource.)
Compact(r) == [r EXCEPT !.spaced = FALSE]

\* WriteResources: var resources int; var inlineOutcomes; what the sink
\* holds and how many Write calls it has seen.
WriteState ==
    [resources |-> 0, inlineOutcomes |-> <<>>, err |-> Nil, written |-> <<>>,
     writes |-> 0, panicked |-> FALSE]

\* WriteResources: for _, e := range bundle.Entry, from entry i on. An entry
\* without resource is skipped; *e.Search.Mode of a search without mode is
\* a nil pointer dereference; an outcome entry is parsed and kept; any other
\* resource is compacted and written, then '\n', then resources++.
RECURSIVE WriteEntries(_, _, _, _)
WriteEntries(entries, i, st, failsAt) ==
    IF i > Len(entries) THEN st
    ELSE LET e == entries[i] IN
         IF ~e.Resource.present THEN WriteEntries(entries, i + 1, st, failsAt)
         ELSE IF e.Search = SearchWithoutMode
         THEN [st EXCEPT !.panicked = TRUE]
         ELSE IF e.Search = SearchEntryModeOutcome
         THEN IF ~e.Resource.outcomeOk
              THEN [st EXCEPT !.err = "could not parse an encountered inline outcome from JSON"]
              ELSE WriteEntries(entries, i + 1,
                       [st EXCEPT !.inlineOutcomes = Append(@, e.Resource)], failsAt)
         ELSE IF st.writes + 1 = failsAt
         THEN [st EXCEPT !.err = "could not write resource to output file",
                         !.writes = @ + 1]
         ELSE IF st.writes + 2 = failsAt
         THEN [st EXCEPT !.err = "could not write resource separator to output file",
                         !.written = Append(@, ResourceBytes(Compact(e.Resource))),
                         !.writes = @ + 2]
         ELSE WriteEntries(entries, i + 1,
                  [st EXCEPT !.written = @ \o <<ResourceBytes(Compact(e.Resource)),
                                                 NewlineByte>>,
                             !.writes = @ + 2,
                             !.resources = @ + 1], failsAt)

\* WriteResources(data, sink)
WriteResources(data, failsAt) ==
    IF data.kind = "empty" THEN WriteState
    ELSE IF data.kind = "invalid"
    THEN [WriteState EXCEPT !.err = "could not parse the bundle entries from JSON"]
    ELSE WriteEntries(data.Entry, 1, WriteState, failsAt)

\* One call of WriteResources is about to be made.
InitWriteResources ==
    /\ callee = "WriteResources"
    /\ callArgs \in [data : WriteResourcesData, sink : SinkFailures]
    /\ callResult = Nil
    /\ callPc = "call"
    /\ UploadIdle
    /\ PollIdle
    /\ DiscoveryIdle
    /\ RetryIdle
    /\ PagesIdle

\* The call and its return or panic.
CallWriteResources ==
    /\ callee = "WriteResources"
    /\ callPc = "call"
    /\ callResult' = WriteResources(callArgs.data, callArgs.sink)
    /\ callPc' = "returned"
    /\ UNCHANGED <<callee, callArgs>>
    /\ UNCHANGED otherThanCalls

NextWriteResources == CallWriteResources

SpecWriteResources == InitWriteResources /\ [][NextWriteResources]_vars

-----------------------------------------------------------------------------
(* countResourcesCmd (cmd/countResources.go) *)

\* fm.ResourceType: a resource type, given by the rank of its Code() in the
\* ascending order of the type names.
ResourceTypes == 1..MaxTypes

\* []fm.ResourceType as extractResourceTypesWithSearchTypeInteraction returns
\* it: the types in the order of the capability statement.
ResourceTypeLists ==
    UNION {[1..n -> ResourceTypes] : n \in 0..MaxTypes}

\* map[fm.ResourceType]int as extractTotalCounts returns it; a missing key
\* reads as 0.
CountMaps == [ResourceTypes -> 0..1]

\* sort.Strings(resourceTypeCodes): the keys of counts in ascending order.
RECURSIVE SortStrings(_)
SortStrings(codes) ==
    IF codes = {} THEN <<>>
    ELSE LET least == CHOOSE c \in codes : \A d \in codes : c <= d IN
         <<least>> \o SortStrings(codes \ {least})

\* One printed row: fmt.Printf(format, resourceType, counts[resourceType])
CountRow(resourceType, count) == [resourceType |-> resourceType, count |-> count]

\* for _, resourceType := range resourceTypes { if counts[resourceType] != 0
\* { fmt.Printf(...) } }: the rows in the order of resourceTypes.
RECURSIVE PrintCountRows(_, _)
PrintCountRows(resourceTypes, counts) ==
    IF resourceTypes = <<>> THEN <<>>
    ELSE (IF counts[Head(resourceTypes)] # 0
          THEN <<CountRow(Head(resourceTypes), counts[Head(resourceTypes)])>>
          ELSE <<>>)
         \o PrintCountRows(Tail(resourceTypes), counts)

\* countResourcesCmd.RunE after fetchResourcesTotal: the sorted codes, which
\* are not used afterwards, and the rows printed.
countResourcesCmd(resourceTypes, counts) ==
    [resourceTypeCodes |->
         SortStrings({t \in ResourceTypes :
                         \E i \in DOMAIN resourceTypes : resourceTypes[i] = t}),
     rows |-> PrintCountRows(resourceTypes, counts)]

\* count-resources has fetched the resource types and their counts.
InitCountResources ==
    /\ callee = "countResourcesCmd"
    /\ callArgs \in [resourceTypes : ResourceTypeLists, counts : CountMaps]
    /\ callResult = Nil
    /\ callPc = "call"
    /\ UploadIdle
    /\ PollIdle
    /\ DiscoveryIdle
    /\ RetryIdle
    /\ PagesIdle

\* The rest of RunE: the rows are printed.
CallCountResources ==
    /\ callee = "countResourcesCmd"
    /\ callPc = "call"
    /\ callResult' = countResourcesCmd(callArgs.resourceTypes, callArgs.counts)
    /\ callPc' = "returned"
    /\ UNCHANGED <<callee, callArgs>>
    /\ UNCHANGED otherThanCalls

NextCountResources == CallCountResources

SpecCountResources == InitCountResources /\ [][NextCountResources]_vars

-----------------------------------------------------------------------------
(* CalculateDurationStatistics (util), genStats (cmd/upload.go) *)

\* How often a value can occur in a vector of durations.
VectorCounts == {0, 1, 2, 2294, 227107}

\* The argument durations, given by how often each value occurs in it; the
\* values are durations in half milliseconds. sort.Float64s yields the same
\* slice for every order of the same values.
DurationVectors == [1..MaxDuration -> VectorCounts]

\* The number of elements of durations that are at most v.
RECURSIVE CountUpTo(_, _)
CountUpTo(durations, v) ==
    IF v = 0 THEN 0 ELSE durations[v] + CountUpTo(durations, v - 1)

\* len(durations)
VectorLen(durations) == CountUpTo(durations, MaxDuration)

\* floats.Sum(durations)
RECURSIVE VectorSum(_, _)
VectorSum(durations, v) ==
    IF v = 0 THEN 0 ELSE (v * durations[v]) + VectorSum(durations, v - 1)

\* durations[k] after sort.Float64s(durations), k counted from 0.
SortedAt(durations, k) ==
    CHOOSE v \in 1..MaxDuration :
        CountUpTo(durations, v - 1) <= k /\ k < CountUpTo(durations, v)

\* time.Duration(d*1000) * time.Millisecond: whole milliseconds.
ToMilliseconds(d) == d \div 2

RECURSIVE Pow2(_)
Pow2(k) == IF k = 0 THEN 1 ELSE 2 * Pow2(k - 1)

\* The number of binary digits of x.
RECURSIVE BitLength(_)
BitLength(x) == IF x = 0 THEN 0 ELSE 1 + BitLength(x \div 2)

\* The float32 nearest to 0.95 and to 0.99, as multiples of 2^-24.
Float32Of095 == 15938355
Float32Of099 == 16609444

\* int(float32(n) * c) for the float32 constant c = m * 2^-24 and n < 2^20:
\* the exact product n * m * 2^-24, rounded to the nearest float32 (24
\* significant bits, ties to even), then truncated. The product is built
\* from three 8-bit parts of m as hi * 2^16 + lo.
IntOfFloat32Product(n, m) ==
    LET c0 == n * (m % 256)
        c1 == (n * ((m \div 256) % 256)) + (c0 \div 256)
        hi == (n * (m \div 65536)) + (c1 \div 256)
        lo == ((c1 % 256) * 256) + (c0 % 256)
        shift == BitLength(hi) - 8
        floorQ == IF shift >= 16
                  THEN hi \div Pow2(shift - 16)
                  ELSE (hi * Pow2(16 - shift)) + (lo \div Pow2(shift))
        rem == IF shift >= 16
               THEN ((hi % Pow2(shift - 16)) * 65536) + lo
               ELSE lo % Pow2(shift)
        half == Pow2(shift - 1)
        rounded == IF rem > half \/ (rem = half /\ (floorQ % 2) = 1)
                   THEN floorQ + 1 ELSE floorQ
    IN  IF hi < 256 THEN hi \div 256
        ELSE rounded \div Pow2(24 - shift)

\* DurationStatistics{Mean, Q50, Q95, Q99, Max}, in milliseconds; panicked
\* when an index is out of range.
DurationStatistics(mean, q50, q95, q99, max, panic) ==
    [Mean |-> mean, Q50 |-> q50, Q95 |-> q95, Q99 |-> q99, Max |-> max,
     panicked |-> panic]

\* CalculateDurationStatistics(durations)
CalculateDurationStatistics(durations) ==
    LET n == VectorLen(durations)
        i50 == n \div 2
        i95 == IntOfFloat32Product(n, Float32Of095)
        i99 == IntOfFloat32Product(n, Float32Of099)
    IN  IF n = 0 THEN DurationStatistics(0, 0, 0, 0, 0, FALSE)
        ELSE IF i50 >= n \/ i95 >= n \/ i99 >= n
        THEN DurationStatistics(0, 0, 0, 0, 0, TRUE)
        ELSE DurationStatistics(
                 VectorSum(durations, MaxDuration) \div (2 * n),
                 ToMilliseconds(SortedAt(durations, i50)),
                 ToMilliseconds(SortedAt(durations, i95)),
                 ToMilliseconds(SortedAt(durations, i99)),
                 ToMilliseconds(SortedAt(durations, n - 1)),
                 FALSE)

\* One call of CalculateDurationStatistics is about to be made.
InitDurationStatistics ==
    /\ callee = "CalculateDurationStatistics"
    /\ callArgs \in [durations : DurationVectors]
    /\ callResult = Nil
    /\ callPc = "call"
    /\ UploadIdle
    /\ PollIdle
    /\ DiscoveryIdle
    /\ RetryIdle
    /\ PagesIdle

\* The call and its return or panic.
CallDurationStatistics ==
    /\ callee = "CalculateDurationStatistics"
    /\ callPc = "call"
    /\ callResult' = CalculateDurationStatistics(callArgs.durations)
    /\ callPc' = "returned"
    /\ UNCHANGED <<callee, callArgs>>
    /\ UNCHANGED otherThanCalls

NextDurationStatistics == CallDurationStatistics

SpecDurationStatistics == InitDurationStatistics /\ [][NextDurationStatistics]_vars

-----------------------------------------------------------------------------
(* FmtBytesHumanReadable (util), fmtBytes (cmd/upload.go) *)

\* units := []string{"B", "KiB", "MiB", "GiB", "TiB", "PiB"}
units == <<"B", "KiB", "MiB", "GiB", "TiB", "PiB">>

RECURSIVE Pow1024(_)
Pow1024(k) == IF k = 0 THEN 1 ELSE 1024 * Pow1024(k - 1)

\* A float32 amount of bytes: num * 1024^exp. Dividing it by 1024 is exact
\* in float32 and lowers exp by one.
Bytes(num, exp) == [num |-> num, exp |-> exp]

\* The arguments: the whole numbers up to MaxByteCount, each in every
\* order of magnitude up to one beyond the largest unit.
ByteAmounts == {Bytes(n, e) : n \in 0..MaxByteCount, e \in 0..Len(units)}

\* bytes <= 1024
AtMost1024(bytes) ==
    IF bytes.exp <= 0 THEN bytes.num <= 1024 * Pow1024(0 - bytes.exp)
    ELSE bytes.num = 0 \/ (bytes.exp = 1 /\ bytes.num <= 1)

\* fmt.Sprintf("%.2f", bytes): the number printed, in hundredths, the exact
\* value rounded to two decimals, ties to even.
Hundredths(bytes) ==
    IF bytes.num = 0 THEN 0
    ELSE IF bytes.exp >= 0 THEN bytes.num * 100 * Pow1024(bytes.exp)
    ELSE LET scaled == bytes.num * 100
             unit == Pow1024(0 - bytes.exp)
             floorQ == scaled \div unit
             rem == scaled % unit
         IN  IF 2 * rem > unit \/ (2 * rem = unit /\ (floorQ % 2) = 1)
             THEN floorQ + 1 ELSE floorQ

\* The loop of FmtBytesHumanReadable from unitIdx on (unitIdx counted from
\* 0 as in the source), and the string it returns: number and unit.
RECURSIVE FmtLoop(_, _)
FmtLoop(bytes, unitIdx) ==
    IF AtMost1024(bytes) \/ (unitIdx + 1) > Len(units) - 1
    THEN [hundredths |-> Hundredths(bytes), unit |-> units[unitIdx + 1]]
    ELSE FmtLoop(Bytes(bytes.num, bytes.exp - 1), unitIdx + 1)

\* FmtBytesHumanReadable(bytes)
FmtBytesHumanReadable(bytes) == FmtLoop(bytes, 0)

\* One call of FmtBytesHumanReadable is about to be made.
InitFmtBytes ==
    /\ callee = "FmtBytesHumanReadable"
    /\ callArgs \in [bytes : ByteAmounts]
    /\ callResult = Nil
    /\ callPc = "call"
    /\ UploadIdle
    /\ PollIdle
    /\ DiscoveryIdle
    /\ RetryIdle
    /\ PagesIdle

\* The call and its return.
CallFmtBytes ==
    /\ callee = "FmtBytesHumanReadable"
    /\ callPc = "call"
    /\ callResult' = FmtBytesHumanReadable(callArgs.bytes)
    /\ callPc' = "returned"
    /\ UNCHANGED <<callee, callArgs>>
    /\ UNCHANGED otherThanCalls

NextFmtBytes == CallFmtBytes

SpecFmtBytes == InitFmtBytes /\ [][NextFmtBytes]_vars

-----------------------------------------------------------------------------
(* The output file of the download command (cmd/download.go) *)

\* The bytes a file may hold, and the contents of a file of the file system.
FileBytes == {0, 1}

OutputFileContents == UNION {[1..n -> FileBytes] : n \in 0..MaxContentLen}

\* No file at a path.
NoFile == <<2>>

\* The paths of the file system, and the file systems: each path holds a
\* file with its content, or nothing.
Paths == {"a.ndjson", "b.ndjson"}

FileSystems == [Paths -> OutputFileContents \cup {NoFile}]

\* os.OpenFile(filepath, O_WRONLY|O_CREATE, 0644): the open without the
\* exclusive flag, which opens an existing file as it is.
OpenFileNonExclusive(fs, filepath, denied) ==
    IF fs[filepath] # NoFile
    THEN [fs |-> fs, err |-> Nil, file |-> filepath]
    ELSE IF denied
         THEN [fs |-> fs, err |-> "EACCES", file |-> Nil]
         ELSE [fs |-> [fs EXCEPT ![filepath] = <<>>], err |-> Nil,
               file |-> filepath]

\* os.OpenFile(filepath, O_WRONLY|O_CREATE|O_EXCL, 0644): fails with EEXIST
\* when the path exists, with another error when the file cannot be created
\* (denied), and creates an empty file otherwise.
OpenFile(fs, filepath, denied) ==
    IF fs[filepath] # NoFile
    THEN [fs |-> fs, err |-> "EEXIST", file |-> Nil]
    ELSE IF denied
         THEN [fs |-> fs, err |-> "EACCES", file |-> Nil]
         ELSE [fs |-> [fs EXCEPT ![filepath] = <<>>], err |-> Nil,
               file |-> filepath]

\* createOutputFileOrDie(filepath): the file handle, or the exit of the
\* process with code 3 (the file exists) or 4 (any other error).
createOutputFileOrDie(fs, filepath, denied) ==
    LET opened == OpenFile(fs, filepath, denied)
    IN  IF opened.err # Nil
        THEN IF opened.err = "EEXIST"
             THEN [fs |-> opened.fs, exited |-> TRUE, exit |-> 3,
                   outputFile |-> Nil]
             ELSE [fs |-> opened.fs, exited |-> TRUE, exit |-> 4,
                   outputFile |-> Nil]
        ELSE [fs |-> opened.fs, exited |-> FALSE, exit |-> 0,
              outputFile |-> opened.file]

\* One call of createOutputFileOrDie is about to be made.
InitCreateOutputFile ==
    /\ callee = "createOutputFileOrDie"
    /\ callArgs \in [fs : FileSystems, filepath : Paths, denied : BOOLEAN]
    /\ callResult = Nil
    /\ callPc = "call"
    /\ UploadIdle
    /\ PollIdle
    /\ DiscoveryIdle
    /\ RetryIdle
    /\ PagesIdle

\* The call and its return (or the exit of the process).
CallCreateOutputFile ==
    /\ callee = "createOutputFileOrDie"
    /\ callPc = "call"
    /\ callResult' = createOutputFileOrDie(callArgs.fs, callArgs.filepath,
                                           callArgs.denied)
    /\ callPc' = "returned"
    /\ UNCHANGED <<callee, callArgs>>
    /\ UNCHANGED otherThanCalls

NextCreateOutputFile == CallCreateOutputFile

SpecCreateOutputFile == InitCreateOutputFile /\ [][NextCreateOutputFile]_vars

-----------------------------------------------------------------------------
(* The aggregator over two arrival orders of the same results *)

\* The lists of results the workers produce for a bundle list: per bundle,
\* its discovery error or one of the outcomes of uploadBundle.
ResultLists ==
    UNION { { rs \in [DOMAIN bs -> UNION { UploadOutcomes(b) : b \in BundleUniverse }
                                   \cup { [id |-> b.id, uploadInfo |-> NoUploadInfo,
                                           err |-> b.err] : b \in BundleUniverse }] :
                \A i \in DOMAIN bs :
                    IF bs[i].err # Nil
                    THEN rs[i] = [id |-> bs[i].id, uploadInfo |-> NoUploadInfo,
                                  err |-> bs[i].err]
                    ELSE rs[i] \in UploadOutcomes(bs[i]) } : bs \in UploadInputs }

\* The arrival orders of n results.
ArrivalOrders(n) ==
    { p \in [1..n -> 1..n] : \A i, j \in 1..n : (p[i] = p[j]) => (i = j) }

\* aggregateUploadResults over the results in arrival order: the aggregate
\* it publishes when uploadResultCh is closed after them.
RECURSIVE aggregateUploadResults(_, _)
aggregateUploadResults(results, n) ==
    IF n = 0 THEN NewAggregate
    ELSE AggregateOne(aggregateUploadResults(results, n - 1), results[n])

\* sort.Float64s(durations), as genStats applies it to a duration vector.
RECURSIVE SortFloat64s(_)
SortFloat64s(durations) ==
    IF durations = <<>> THEN <<>>
    ELSE LET k == CHOOSE i \in DOMAIN durations :
                      \A j \in DOMAIN durations : durations[i] <= durations[j]
         IN  <<durations[k]>> \o
             SortFloat64s([i \in 1..(Len(durations) - 1) |->
                               IF i < k THEN durations[i] ELSE durations[i + 1]])

\* The aggregate with its duration vectors sorted.
WithSortedDurations(a) ==
    [a EXCEPT !.requestDurations = SortFloat64s(@),
              !.processingDurations = SortFloat64s(@)]

\* The same results are about to arrive in two orders.
InitAggregate ==
    /\ callee = "aggregateUploadResults"
    /\ \E rs \in ResultLists :
           callArgs \in [results : {rs}, order : ArrivalOrders(Len(rs))]
    /\ callResult = Nil
    /\ callPc = "call"
    /\ UploadIdle
    /\ PollIdle
    /\ DiscoveryIdle
    /\ RetryIdle
    /\ PagesIdle

\* The two runs of the aggregator and the aggregates they publish.
CallAggregate ==
    /\ callee = "aggregateUploadResults"
    /\ callPc = "call"
    /\ LET results == callArgs.results
           reordered == [i \in DOMAIN results |-> results[callArgs.order[i]]]
       IN  callResult' =
               [first  |-> aggregateUploadResults(results, Len(results)),
                second |-> aggregateUploadResults(reordered, Len(reordered))]
    /\ callPc' = "returned"
    /\ UNCHANGED <<callee, callArgs>>
    /\ UNCHANGED otherThanCalls

NextAggregate == CallAggregate

SpecAggregate == InitAggregate /\ [][NextAggregate]_vars

-----------------------------------------------------------------------------
(* Properties of the upload run *)

\* The bundles whose slot of the limiter is taken and not yet given back: the
\* one the dispatcher has just taken a slot for, and every started goroutine
\* that has not run its deferred <-limiter.
SlotHolders ==
    {i \in Workers : workerPc[i] \in {"start", "upload", "send", "sent", "release", "panic"}}
    \cup (IF mainPc = "spawn" THEN {nextBundle} ELSE {})

\* The bundles whose transaction POST is in flight.
InFlight == {i \in Workers : workerPc[i] = "upload"}

\* C1: at every moment at most `concurrency` bundles hold a slot of the
\* limiter, and so at most `concurrency` transaction POSTs are in flight.
C1_BoundedInFlight ==
    /\ Cardinality(SlotHolders) <= concurrency
    /\ Cardinality(InFlight) <= concurrency
    /\ limiter = Cardinality(SlotHolders)

\* C1 witness: the limit binds: two POSTs in flight at concurrency 2 while a
\* third bundle waits for a slot.
C1_Witness ==
    /\ concurrency = 2
    /\ Cardinality(InFlight) = 2
    /\ mainPc = "range"
    /\ nextBundle <= Len(bundles)

\* C2: no bundle is ever reported twice to the aggregator, and every collected
\* bundle, with or without discovery error, is eventually received by the
\* aggregator exactly once.
C2_ExactlyOneResult ==
    /\ [](\A i \in Workers : received[i] <= 1)
    /\ <>(\A i \in Workers : received[i] = 1)

\* C2 witness: three bundles, one of them with a discovery error, have each
\* been received once.
C2_Witness ==
    /\ Len(bundles) = 3
    /\ \E i \in Workers : bundles[i].err # Nil
    /\ \E i \in Workers : bundles[i].err = Nil
    /\ \A i \in Workers : received[i] = 1

\* C3 (as claimed): in the published aggregate, totalProcessedBundles is the
\* number of status-200 results plus the sizes of the two error maps.
C3_TotalIsSum ==
    \A k \in DOMAIN published :
        published[k].totalProcessedBundles =
            Len(published[k].processingDurations)
            + Cardinality(DOMAIN published[k].errorResponses)
            + Cardinality(DOMAIN published[k].errors)

\* C4: uploadResultCh is closed at most once, only when every worker has
\* completed its send, and no send or close ever hits the closed channel.
C4_ResultChClosedOnceAfterSends ==
    /\ resultChCloses <= 1
    /\ ~panicked
    /\ resultChCloses > 0 =>
           \A i \in Workers : workerPc[i] \in {"sent", "release", "exit"}

\* C4 witness: the channel is closed after three workers have sent.
C4_Witness ==
    /\ resultChCloses = 1
    /\ Len(bundles) = 3
    /\ SentCount = 3

-----------------------------------------------------------------------------
(* Properties of PollAsyncStatus *)

\* C7 (as claimed): the wait before the first poll is 100 ms, the wait before
\* every later poll (each of which follows a 202) is twice the wait before
\* the previous one, and no wait exceeds 10 s.
C7_WaitDoublesCappedAtTenSeconds ==
    \A k \in DOMAIN waited :
        /\ waited[k] <= TenSeconds
        /\ k = 1 => waited[k] = HundredMilliseconds
        /\ k > 1 => waited[k] = 2 * waited[k - 1]

\* The response handled last is a 202 whose body was drained.
Accepted202 ==
    /\ lastResponse.transportOk
    /\ lastResponse.status = 202
    /\ lastResponse.bodyOk

\* C8: PollAsyncStatus returns only after a 200 response (Done), after a
\* response other than 200 and 202 or a transport failure, the failed read of
\* a response body included (Error), or after it took the cancel signal
\* (Cancelled); when it has handled a 202 it is back at the select, with
\* nothing returned, and its next request is again a GET or the DELETE.
C8_TerminalOutcomes ==
    /\ [](pollPc = "returned" =>
            \/ cancelTaken
            \/ lastResponse.transportOk /\ lastResponse.status = 200
            \/ lastResponse.transportOk /\ lastResponse.status \notin {200, 202}
            \/ ~lastResponse.transportOk
            \/ lastResponse.status = 202 /\ ~lastResponse.bodyOk)
    /\ [][(pollPc = "get" /\ pollPc' # "get" /\ Accepted202')
            => (pollPc' = "select" /\ pollResult' = NoReturn)]_vars
    /\ []((pollPc = "returned" /\ ~cancelTaken) => ~Accepted202)

\* C8 witness: after three 202 responses the poller waits again, 800 ms.
C8_Witness ==
    /\ pollPc = "select"
    /\ polls = 3
    /\ Accepted202
    /\ wait = 800
    /\ pollResult = NoReturn

\* The 200 response handled last is a FHIR JSON bundle of type batch-response
\* with exactly one entry whose response status begins with "200".
GoodOkResponse ==
    /\ lastResponse.fhir
    /\ lastResponse.bodyOk
    /\ lastResponse.bundle.type = "batch-response"
    /\ Len(lastResponse.bundle.entry) = 1
    /\ lastResponse.bundle.entry[1].response.present
    /\ LET status == lastResponse.bundle.entry[1].response.status IN
       /\ Len(status) >= 3
       /\ status[1] = "2" /\ status[2] = "0" /\ status[3] = "0"

\* C9: after a poll that returned 200, the result is the entry's resource and
\* no error exactly if the body is a FHIR JSON batch-response bundle with one
\* entry whose response status begins with 200; otherwise the result is an
\* error and no payload.
C9_PayloadIffGoodBundle ==
    (pollPc = "returned" /\ ~cancelTaken
        /\ lastResponse.transportOk /\ lastResponse.status = 200) =>
    /\ GoodOkResponse =>
          /\ pollResult.err = Nil
          /\ pollResult.payload = lastResponse.bundle.entry[1].resource
    /\ ~GoodOkResponse =>
          /\ pollResult.err # Nil
          /\ pollResult.payload = Nil

\* C9 witness: a 200 with a one-entry batch-response bundle of status
\* "200 OK" has returned the MeasureReport, after two 202 responses.
C9_Witness ==
    /\ pollPc = "returned"
    /\ polls = 3
    /\ lastResponse.status = 200
    /\ GoodOkResponse
    /\ lastResponse.bundle.entry[1].response.status = Status200OK
    /\ pollResult = Returns("MeasureReport", Nil)

\* C10: once PollAsyncStatus has taken the cancel signal, exactly one DELETE
\* has been sent, no GET is sent any more, and what it returns is an error
\* and no payload, the cancellation error for every status of the DELETE
\* response. Without the signal no DELETE is sent.
C10_CancelSendsOneDelete ==
    /\ [](deletes = (IF cancelTaken THEN 1 ELSE 0))
    /\ [][cancelTaken => (polls' = polls /\ pollPc' # "get")]_vars
    /\ []((cancelTaken /\ pollPc = "returned") =>
            /\ pollResult.payload = Nil
            /\ pollResult.err # Nil
            /\ lastResponse.transportOk =>
                  pollResult.err \in {"successfully cancelled", "error while cancelling"})

\* C10 witness: cancelled after two polls, and the DELETE was answered 404.
C10_Witness ==
    /\ cancelTaken
    /\ pollPc = "returned"
    /\ polls = 2
    /\ lastResponse.transportOk
    /\ lastResponse.status = 404

\* C11 (as claimed): whenever PollAsyncStatus is about to send a request, waits
\* for a response or has returned, every response body it has received (of a
\* 202, of the 200, of an error response, of the DELETE response) has been
\* drained and closed.
C11_BodiesDrainedAndClosed ==
    pollPc \in {"select", "get", "delete", "returned"} =>
        /\ bodies.closed = bodies.received
        /\ bodies.drained = bodies.received

-----------------------------------------------------------------------------
(* Properties of evaluateMeasureWithRetry *)

\* The error is an OperationOutcome of the evaluation request with at least
\* one issue whose code is one of the six retryable codes.
TransientOutcome(err) ==
    /\ Len(err) = 2
    /\ err[1].type = "fmt.wrapError"
    /\ err[2].type = "cmd.operationOutcomeError"
    /\ \E i \in DOMAIN err[2].issues : err[2].issues[i] \in TransientIssueTypes

\* C12: an attempt other than the first starts only if the attempt before it
\* failed with an OperationOutcome that has an issue with one of the codes
\* transient, lock-error, no-store, timeout, incomplete, throttled; after a
\* success or any other error the function returns what the attempt returned
\* and makes no further attempt.
C12_RetryOnlyOnTransientOutcome ==
    /\ [][(attempts' = attempts + 1 /\ attempts >= 1) => TransientOutcome(lastErr)]_vars
    /\ [][(attempts' = attempts + 1 /\ ~TransientOutcome(lastErr')) =>
            (retryPc' = "returned" /\ retryResult' = Returns(lastReport', lastErr'))]_vars
    /\ [][retryPc = "returned" => attempts' = attempts]_vars

\* C12 witness: a success at the third attempt, after two retryable outcomes.
C12_Witness ==
    /\ retryPc = "returned"
    /\ attempts = 3
    /\ Len(slept) = 2
    /\ retryResult = Returns("MeasureReport", NilError)

RECURSIVE SumSeq(_)
SumSeq(q) == IF q = <<>> THEN 0 ELSE Head(q) + SumSeq(Tail(q))

\* C13 (as claimed): the first wait slept is 100 ms, each later one is twice
\* the one before, and the waits slept in one call sum to less than 5 s.
C13_BackoffBelowFiveSecondsTotal ==
    /\ \A k \in DOMAIN slept :
          /\ k = 1 => slept[k] = HundredMilliseconds
          /\ k > 1 => slept[k] = 2 * slept[k - 1]
    /\ SumSeq(slept) < FiveSeconds

\* C14: there are never more than six attempts, and when the sixth fails
\* with a retryable outcome too, the function returns nil and the error of
\* that attempt.
C14_BoundedAttemptsLastError ==
    /\ attempts <= 6
    /\ (retryPc = "returned" /\ TransientOutcome(lastErr)) =>
          /\ attempts = 6
          /\ retryResult = Returns(Nil, lastErr)

\* C14 witness: six attempts failed, the last with a throttled issue, and
\* that error is returned.
C14_Witness ==
    /\ retryPc = "returned"
    /\ attempts = 6
    /\ retryResult.err = WrapError(CmdOutcomeError(<<"throttled">>))

-----------------------------------------------------------------------------
(* Properties of the page streamer *)

\* C15 (as claimed): as long as the pages served are pages of an acyclic
\* chain linked by rel=next, the streamer requests each URL at most once, has
\* emitted exactly one page result per request, goes on with the page's next
\* link and stops only at the page that has none: n requests and n page
\* results for a chain of n pages.
C15_ChainRequestedOnce ==
    chain =>
        /\ \A j, k \in DOMAIN requests : j # k => requests[j] # requests[k]
        /\ emitted = [k \in DOMAIN requests |-> PageResult(requests[k])]
        /\ (pagePc = "request" /\ requests # <<>>) => request = ServerNext(lastPage)
        /\ pagePc \in {"returned", "closed"} => ServerNext(lastPage) = NoLink

\* The request failed: transport error, unreadable body, or another status
\* than 200.
PageRequestFailed(resp) ==
    \/ resp.kind = "transportErr"
    \/ resp.kind = "response" /\ (~resp.readOk \/ resp.status # 200)

\* The pass in which a page request fails emits exactly one result, an
\* error, and ends the streamer; for a status other than 200 whose body was
\* read the result has the stats and, if the body is an OperationOutcome,
\* the error response with the status.
FailedPassEmitsOneError ==
    (requests' # requests /\ PageRequestFailed(lastPage')) =>
        (/\ pagePc' = "returned"
         /\ Len(emitted') = Len(emitted) + 1
         /\ SubSeq(emitted', 1, Len(emitted)) = emitted
         /\ emitted'[Len(emitted')].err # Nil
         /\ (lastPage'.status # 200 /\ lastPage'.readOk /\ lastPage'.closeOk) =>
               (/\ emitted'[Len(emitted')].stats
                /\ emitted'[Len(emitted')].errResponse =
                       (IF lastPage'.jsonOk THEN lastPage'.status ELSE 0)))

\* C16: a pass in which the page request fails emits one error result (with
\* stats and decoded outcome for a status other than 200) and ends the
\* streamer; once the streamer has ended, no request is issued and nothing
\* is emitted.
C16_FailureEmitsOneErrorAndStops ==
    /\ [][FailedPassEmitsOneError]_vars
    /\ [][(pagePc \in {"returned", "closed"}) =>
            (emitted' = emitted /\ requests' = requests)]_vars

\* C16 witness: the second page was answered 404 with an OperationOutcome;
\* the page of the first request and the error response were emitted.
C16_Witness ==
    /\ pagePc = "closed"
    /\ Len(requests) = 2
    /\ Len(emitted) = 2
    /\ emitted[1] = PageResult(1)
    /\ emitted[2].errResponse = 404
    /\ emitted[2].stats

C18_NextLinkFromHeaderFirst ==
    (/\ streamer = "downloadHistory"
     /\ lastPage.kind = "response"
     /\ lastPage.status = 200
     /\ lastPage.readOk /\ lastPage.closeOk
     /\ lastPage.header # <<>> \/ lastPage.jsonOk
     /\ ServerNext(lastPage) # BadUrl) =>
        IF ServerNext(lastPage) = NoLink
        THEN pagePc \in {"returned", "closed"}
        ELSE pagePc = "request" /\ request = ServerNext(lastPage)

-----------------------------------------------------------------------------
(* Properties of bundle discovery *)

\* C6: the bundle channel ubp.res is closed at most once, only when both the
\* single-file producer and the multi-file producer have finished, and no
\* producer ever sends on it after the close.
C6_BundleChClosedOnceAfterProducers ==
    /\ bundleChCloses <= 1
    /\ ~discPanicked
    /\ bundleChCloses > 0 => (spPc = "done" /\ mpPc = "done" /\ producerWg = 0)

\* C6 witness: the channel is closed after both producers have sent bundles.
C6_Witness ==
    /\ bundleChCloses = 1
    /\ \E i \in DOMAIN collected : collected[i].id.filename = "a.json"
    /\ \E i \in DOMAIN collected : collected[i].id.filename = "b.ndjson"
    /\ Len(collected) >= 3

-----------------------------------------------------------------------------
(* Properties of the chunk scanner *)

\* The offsets, counted from 0, of the delimiters of the content d.
DelimiterOffsets(d) ==
    {j \in 0..(Len(d) - 1) : d[j + 1] = MultiBundleFileBundleDelimiter}

\* The offset of the k-th delimiter of d.
KthDelimiter(d, k) ==
    CHOOSE j \in DelimiterOffsets(d) :
        Cardinality({i \in DelimiterOffsets(d) : i < j}) = k - 1

\* The offset just after the k-th delimiter of d, 0 for k = 0.
AfterKthDelimiter(d, k) == IF k = 0 THEN 0 ELSE KthDelimiter(d, k) + 1

\* Every result the scanner of file i has sent so far is without error.
ReadWithoutErrors(i) ==
    \A k \in 1..Len(calcResSent[i]) : calcResSent[i][k].Err = Nil

\* The scanner of file i has run and has closed its result channel.
ScannerFinished(i) ==
    /\ multiFiles[i].openOk
    /\ \/ i < mpIdx
       \/ i = mpIdx /\ mpPc \in {"range", "send"} /\ calcResCloses > 0

\* C19: for an input read without errors, the k-th result the chunk scanner
\* emits, k up to the number of delimiters, has the byte range from the
\* offset just after the (k-1)-th delimiter (0 for k = 1) up to, and not
\* including, the offset of the k-th delimiter: results come in file order.
C19_KthResultIsKthDelimitedRange ==
    \A i \in 1..Len(calcResSent) :
        ReadWithoutErrors(i) =>
            \A k \in 1..Len(calcResSent[i]) :
                k <= Cardinality(DelimiterOffsets(multiFiles[i].data)) =>
                    /\ calcResSent[i][k].FileChunk.StartBytes
                           = AfterKthDelimiter(multiFiles[i].data, k - 1)
                    /\ calcResSent[i][k].FileChunk.EndBytes
                           = KthDelimiter(multiFiles[i].data, k)

\* A file read without errors whose scanner has emitted a second result that
\* is not empty.
C19_Witness ==
    \E i \in 1..Len(calcResSent) :
        /\ ReadWithoutErrors(i)
        /\ Len(calcResSent[i]) >= 2
        /\ Cardinality(DelimiterOffsets(multiFiles[i].data)) >= 2
        /\ calcResSent[i][2].FileChunk.StartBytes > 0
        /\ calcResSent[i][2].FileChunk.StartBytes < calcResSent[i][2].FileChunk.EndBytes

\* C20: once the scanner has read an input to its end without errors: if the
\* input does not end with the delimiter, the last result is the range from
\* the offset just after the last delimiter (0 without delimiter) to the
\* input size; if the input ends with the delimiter or is empty, there is one
\* result per delimiter and none for the empty tail.
C20_TailResultOnlyWithoutTrailingDelimiter ==
    \A i \in 1..Len(calcResSent) :
        (ScannerFinished(i) /\ ReadWithoutErrors(i)) =>
            LET d == multiFiles[i].data
                h == calcResSent[i]
                nd == Cardinality(DelimiterOffsets(d))
            IN  IF Len(d) > 0 /\ d[Len(d)] # MultiBundleFileBundleDelimiter
                THEN /\ Len(h) = nd + 1
                     /\ h[Len(h)].FileChunk.StartBytes = AfterKthDelimiter(d, nd)
                     /\ h[Len(h)].FileChunk.EndBytes = Len(d)
                ELSE Len(h) = nd

\* Two files read to their end without errors: the first ends with the
\* delimiter and has one result, the second does not and has its tail as
\* the last result.
C20_Witness ==
    /\ Len(calcResSent) = 2
    /\ ScannerFinished(1) /\ ReadWithoutErrors(1)
    /\ ScannerFinished(2) /\ ReadWithoutErrors(2)
    /\ multiFiles[1].data[Len(multiFiles[1].data)] = MultiBundleFileBundleDelimiter
    /\ Len(calcResSent[1]) = 1
    /\ multiFiles[2].data[Len(multiFiles[2].data)] # MultiBundleFileBundleDelimiter
    /\ Len(calcResSent[2]) = 1
    /\ calcResSent[2][1].FileChunk.EndBytes = Len(multiFiles[2].data)

\* The offsets of the bytes of the range of the k-th result of file i.
ChunkOffsets(i, k) ==
    calcResSent[i][k].FileChunk.StartBytes..(calcResSent[i][k].FileChunk.EndBytes - 1)

\* C21: no range the chunk scanner emits contains a byte equal to the
\* delimiter, whatever the content and however it is split into reads.
C21_NoChunkContainsDelimiter ==
    \A i \in 1..Len(calcResSent) :
        \A k \in 1..Len(calcResSent[i]) :
            \A j \in ChunkOffsets(i, k) :
                /\ j + 1 \in DOMAIN multiFiles[i].data
                /\ multiFiles[i].data[j + 1] # MultiBundleFileBundleDelimiter

\* The scanner has emitted a range of two bytes that lies between two
\* delimiters or after one.
C21_Witness ==
    \E i \in 1..Len(calcResSent) :
        \E k \in 1..Len(calcResSent[i]) :
            /\ Cardinality(ChunkOffsets(i, k)) >= 2
            /\ DelimiterOffsets(multiFiles[i].data) # {}

-----------------------------------------------------------------------------
(* Properties of the discovered bundles *)

\* The size in bytes of the file of the given name: fInfo.Size() of a
\* single-bundle file, the length of the content of a multi-bundle file.
FileSize(name) ==
    IF \E i \in DOMAIN singleFiles : singleFiles[i].name = name
    THEN singleFiles[CHOOSE i \in DOMAIN singleFiles : singleFiles[i].name = name].size
    ELSE Len(multiFiles[CHOOSE i \in DOMAIN multiFiles : multiFiles[i].name = name].data)

\* C22: every bundle discovery emits has 0 <= start <= end <= size of its
\* file.
C22_BundleRangeWithinFile ==
    \A k \in 1..Len(collected) :
        /\ 0 <= collected[k].id.startBytes
        /\ collected[k].id.startBytes <= collected[k].id.endBytes
        /\ collected[k].id.endBytes <= FileSize(collected[k].id.filename)

\* Discovery has emitted the bundle of a single-bundle file and the last
\* chunk of a multi-bundle file, which starts after a delimiter and ends at
\* the size of the file.
C22_Witness ==
    /\ \E k \in 1..Len(collected) :
           /\ collected[k].err = Nil
           /\ collected[k].id.startBytes > 0
           /\ collected[k].id.endBytes = FileSize(collected[k].id.filename)
    /\ \E k \in 1..Len(collected) :
           /\ collected[k].err = Nil
           /\ \E i \in DOMAIN singleFiles : singleFiles[i].name = collected[k].id.filename
           /\ collected[k].id.endBytes > 0

\* C23: no bundle without error that discovery emits, and so hands to the
\* upload workers, has start = end.
C23_NoZeroLengthBundleEmitted ==
    \A k \in 1..Len(collected) :
        collected[k].err = Nil =>
            collected[k].id.startBytes # collected[k].id.endBytes

\* Discovery has returned its summary and none of its bundles carries an
\* error: every file was opened and read without error.
DiscoveredWithoutErrors ==
    /\ collectorPc = "done"
    /\ \A k \in 1..Len(collected) : collected[k].err = Nil

\* The sum of end - start over the bundles discovery has emitted.
EmittedVolume ==
    SumSeq([k \in 1..Len(collected) |->
               collected[k].id.endBytes - collected[k].id.startBytes])

\* The sizes of the single-bundle files plus the bytes of the multi-bundle
\* files that are not the delimiter.
PayloadVolume ==
    SumSeq([i \in 1..Len(singleFiles) |-> singleFiles[i].size])
    + SumSeq([i \in 1..Len(multiFiles) |->
                 Len(multiFiles[i].data)
                 - Cardinality(DelimiterOffsets(multiFiles[i].data))])

\* C24: when all files are read without errors, the sum of end - start over
\* the bundles emitted by discovery is the total size of the single-bundle
\* files plus the number of non-delimiter bytes of the multi-bundle files.
C24_EmittedVolumeIsPayloadVolume ==
    DiscoveredWithoutErrors => EmittedVolume = PayloadVolume

\* Discovery without errors of two single-bundle files and of a multi-bundle
\* file with delimiters and other bytes.
C24_Witness ==
    /\ DiscoveredWithoutErrors
    /\ Len(singleFiles) = 2
    /\ \E i \in 1..Len(multiFiles) :
           /\ Cardinality(DelimiterOffsets(multiFiles[i].data)) >= 2
           /\ Len(multiFiles[i].data) > Cardinality(DelimiterOffsets(multiFiles[i].data))
    /\ EmittedVolume > 3

-----------------------------------------------------------------------------
(* Properties of the chunk scanner after a read error *)

\* C25: a result that carries a read error is the last one the chunk scanner
\* emits for its file: one error result, nothing after it.
C25_ReadErrorEndsTheStream ==
    \A i \in 1..Len(calcResSent) :
        \A k \in 1..Len(calcResSent[i]) :
            calcResSent[i][k].Err # Nil => k = Len(calcResSent[i])

-----------------------------------------------------------------------------
(* Properties of WriteResources *)

\* WriteResources has been called on the JSON of a bundle and is done.
WriteResourcesDone ==
    /\ callee = "WriteResources"
    /\ callPc = "returned"
    /\ callArgs.data.kind = "bundle"

\* The entries that have a resource and whose search mode is not outcome.
IsResourceEntry(e) == e.Resource.present /\ e.Search # SearchEntryModeOutcome

\* The entries that have a resource and whose search mode is outcome.
IsOutcomeEntry(e) == e.Resource.present /\ e.Search = SearchEntryModeOutcome

\* One line per entry of es: the compact resource, then the newline.
RECURSIVE LinesOf(_)
LinesOf(es) ==
    IF es = <<>> THEN <<>>
    ELSE <<ResourceBytes(Compact(Head(es).Resource)), NewlineByte>> \o LinesOf(Tail(es))

\* C26: for any search bundle, WriteResources comes back, and when it does
\* so without error it has written exactly one line per entry that has a
\* resource and whose search mode is not outcome, returns the number of
\* these entries as the resource count, and returns the resources of the
\* entries with search mode outcome as inline outcomes.
C26_OneLinePerNonOutcomeResource ==
    WriteResourcesDone =>
        /\ ~callResult.panicked
        /\ callResult.err = Nil =>
               /\ callResult.written
                      = LinesOf(SelectSeq(callArgs.data.Entry, IsResourceEntry))
               /\ callResult.resources
                      = Len(SelectSeq(callArgs.data.Entry, IsResourceEntry))
               /\ Len(callResult.inlineOutcomes)
                      = Len(SelectSeq(callArgs.data.Entry, IsOutcomeEntry))
               /\ \A k \in 1..Len(callResult.inlineOutcomes) :
                      callResult.inlineOutcomes[k]
                          = SelectSeq(callArgs.data.Entry, IsOutcomeEntry)[k].Resource

-----------------------------------------------------------------------------
(* Properties of the end of the upload command *)

\* The result of a bundle is a failure: an error, or a response whose status
\* is not 200.
IsFailure(r) == r.err # Nil \/ r.uploadInfo.statusCode # 200

\* C27: the upload command ends with a non-zero exit code if and only if at
\* least one bundle result was a failure.
C27_ExitCodeNonZeroIffFailure ==
    mainPc = "exited" =>
        ((exitCode # 0) <=> (\E i \in Workers : IsFailure(workerResult[i])))

-----------------------------------------------------------------------------
(* Properties of count-resources *)

\* C28: count-resources prints its per-type count rows in ascending order of
\* the type name.
C28_RowsAscendingByTypeName ==
    (callee = "countResourcesCmd" /\ callPc = "returned") =>
        \A i, j \in DOMAIN callResult.rows :
            i < j => callResult.rows[i].resourceType <= callResult.rows[j].resourceType

-----------------------------------------------------------------------------
(* Properties of the duration statistics *)

\* The index floor(q * n) for q = percent / 100.
QuantileIndex(n, percent) == (n * percent) \div 100

\* C29: for a non-empty duration vector of length n the statistics satisfy
\* min <= p50 <= p95 <= p99 <= max, and each quantile is the element at
\* index floor(q * n) of the sorted vector, an index inside the vector.
C29_QuantilesOrderedAndAtFloorIndex ==
    (/\ callee = "CalculateDurationStatistics"
     /\ callPc = "returned"
     /\ VectorLen(callArgs.durations) > 0) =>
        LET d == callArgs.durations
            n == VectorLen(d)
        IN  /\ ~callResult.panicked
            /\ ToMilliseconds(SortedAt(d, 0)) <= callResult.Q50
            /\ callResult.Q50 <= callResult.Q95
            /\ callResult.Q95 <= callResult.Q99
            /\ callResult.Q99 <= callResult.Max
            /\ \A percent \in {50, 95, 99} : QuantileIndex(n, percent) < n
            /\ callResult.Q50 = ToMilliseconds(SortedAt(d, QuantileIndex(n, 50)))
            /\ callResult.Q95 = ToMilliseconds(SortedAt(d, QuantileIndex(n, 95)))
            /\ callResult.Q99 = ToMilliseconds(SortedAt(d, QuantileIndex(n, 99)))

-----------------------------------------------------------------------------
(* Properties of the humanised byte output *)

\* C30: for every non-negative byte count the humanised output ends in one
\* of B, KiB, MiB, GiB, TiB, PiB, and its numeric part lies in [0, 1024)
\* unless the unit is PiB.
C30_UnitKnownAndNumberBelow1024 ==
    (callee = "FmtBytesHumanReadable" /\ callPc = "returned") =>
        /\ \E k \in DOMAIN units : callResult.unit = units[k]
        /\ callResult.unit # "PiB" =>
               (0 <= callResult.hundredths /\ callResult.hundredths < 1024 * 100)


\* C31: when the output file already exists, createOutputFileOrDie ends the
\* download command with exit code 3 and no handle, and every file of the
\* file system, the existing one included, keeps its content.
C31_ExistingOutputFileExitsThreeUnchanged ==
    (/\ callee = "createOutputFileOrDie"
     /\ callPc = "returned"
     /\ callArgs.fs[callArgs.filepath] # NoFile)
        => /\ callResult.exited
           /\ callResult.exit = 3
           /\ callResult.outputFile = Nil
           /\ callResult.fs = callArgs.fs

\* An output file with two bytes of content exists and the call has ended.
C31_Witness ==
    /\ callee = "createOutputFileOrDie"
    /\ callPc = "returned"
    /\ callArgs.fs[callArgs.filepath] # NoFile
    /\ Len(callArgs.fs[callArgs.filepath]) = 2
    /\ callResult.exit = 3

C33_DiscoveryErrorFailsWithoutUpload ==
    \A i \in Workers :
        (bundles[i].err # Nil)
            => /\ i \notin uploadCalls
               /\ (workerPc[i] \in {"send", "sent", "release", "exit"})
                      => workerResult[i] =
                             [id |-> bundles[i].id,
                              uploadInfo |-> NoUploadInfo,
                              err |-> bundles[i].err]
               /\ (workerPc[i] \in {"sent", "release", "exit"})
                      => /\ received[i] = 1
                         /\ bundles[i].id \in DOMAIN agg.errors
               /\ workerPc[i] # "upload"

\* The worker of a bundle with a read error has sent its result and ended,
\* next to a bundle that was uploaded.
C33_Witness ==
    \E i, j \in Workers :
        /\ bundles[i].err = "read"
        /\ workerPc[i] = "exit"
        /\ workerResult[i].err = "read"
        /\ received[i] = 1
        /\ j \in uploadCalls

\* C34: every result whose response had a status other than 200 is, once the
\* aggregator has taken it, in the error-response map with that status code,
\* also when the body could not be decoded as an OperationOutcome.
C34_NonOkResponseRecordedWithStatus ==
    \A i \in Workers :
        (received[i] > 0 /\ responses[i] \notin {0, 200})
            => /\ bundles[i].id \in DOMAIN agg.errorResponses
               /\ agg.errorResponses[bundles[i].id].statusCode = responses[i]

\* C35: the request-duration vector and the processing-duration vector of
\* the aggregate each hold exactly one sample per received result with status
\* 200 and none for any other result.
C35_DurationVectorsHoldSuccessesOnly ==
    LET ok == {i \in Workers : /\ received[i] > 0
                               /\ workerResult[i].err = Nil
                               /\ workerResult[i].uploadInfo.statusCode = 200}
    IN  /\ Len(agg.processingDurations) = Cardinality(ok)
        /\ Len(agg.requestDurations) = Cardinality(ok)


C37_DeliveredSignalEndsInDelete ==
    /\ [][(signalPending \/ cancelTaken) => (polls' = polls)]_vars
    /\ []((pollPc = "returned" /\ (signalPending \/ cancelTaken)) =>
            /\ cancelTaken
            /\ deletes = 1
            /\ pollResult.payload = Nil
            /\ pollResult.err # Nil)

\* C37 (amended): once a signal has been delivered to the cancel channel, no
\* further GET is sent; when PollAsyncStatus is at its select with the signal
\* pending, its next step sends the DELETE, after which it returns an error
\* and no payload; a signal delivered while a GET is in flight is left in the
\* channel, without DELETE, exactly when that GET ends the polling (any
\* answer but a 202 whose body was drained).
C37_NoGetAfterSignalDeleteAtSelect ==
    /\ [][(signalPending \/ cancelTaken) => (polls' = polls)]_vars
    /\ [][(signalPending /\ pollPc = "select") =>
             (pollPc' = "delete" /\ deletes' = deletes + 1 /\ cancelTaken')]_vars
    /\ []((cancelTaken /\ pollPc = "returned") =>
            /\ deletes = 1
            /\ pollResult.payload = Nil
            /\ pollResult.err # Nil)
    /\ []((signalPending /\ pollPc = "returned") =>
            /\ deletes = 0
            /\ ~(/\ lastResponse.transportOk
                 /\ lastResponse.status = 202
                 /\ lastResponse.bodyOk))

\* C37 witness: after a poll answered 202 the signal was taken, the DELETE
\* was answered 202 and the cancellation error returned.
C37_Witness ==
    /\ cancelTaken
    /\ pollPc = "returned"
    /\ polls = 1
    /\ deletes = 1
    /\ lastResponse.transportOk
    /\ lastResponse.status = 202
    /\ pollResult = Returns(Nil, "successfully cancelled")

\* C38: an attempt of evaluateMeasureWithRetry that took the asynchronous path
\* (a 202, then PollAsyncStatus) ends the loop with the values of that
\* attempt, whatever its error; a sleep, and so another attempt, only follows
\* an attempt that failed on the synchronous response.
C38_AsyncErrorNeverRetried ==
    /\ (lastPath = "async")
           => /\ retryPc = "returned"
              /\ retryResult = Returns(lastReport, lastErr)
    /\ (retryPc = "sleep")
           => /\ lastPath = "sync"
              /\ lastErr # NilError

\* C38 witness: after one retry, the second attempt went the asynchronous
\* path and failed with an outcome of a transient issue, which was returned.
C38_Witness ==
    /\ attempts = 2
    /\ lastPath = "async"
    /\ retryPc = "returned"
    /\ retryResult.err = WrapError(WrapError(FhirOutcomeError(<<"timeout">>)))

C40_BundleIdentifiersUnique ==
    \A j, k \in 1..Len(collected) :
        (j # k) => (collected[j].id # collected[k].id)
=============================================================================
